---- MODULE Spec2Model ----
(***************************************************************************)
(* ScamShield AI: the analytics aggregator (backend/analytics/tracker.py), *)
(* the score combiner, pipeline and endpoints (backend/main.py), the rule  *)
(* engine (backend/detection/rule_detector.py), the language processor     *)
(* (backend/detection/language_processor.py) and the feature score of the  *)
(* classifier (backend/detection/ml_detector.py) as state machines.        *)
(*                                                                         *)
(* Units.  Time is in minutes; a timestamp is stored in its ISO form, here *)
(* the pair hour/minute, and parsed back when read.  Rule and ML scores    *)
(* are in hundredths (0..100 for 0.0..1.0); a final score, and a risk      *)
(* score, is in ten-thousandths (weight in hundredths times score in       *)
(* hundredths), which is exactly the two-decimal risk_score times 100.     *)
(***************************************************************************)
EXTENDS Integers, Sequences, FiniteSets, TLC

VARIABLES
    detections,             \* ScamAnalytics.detections: the bounded log, newest last
    scam_patterns,          \* ScamAnalytics.scam_patterns: rule -> times triggered
    brand_mentions,         \* ScamAnalytics.brand_mentions: brand -> times mentioned
    language_distribution,  \* ScamAnalytics.language_distribution: language -> records
    ingested,               \* history: every record ever appended, in ingestion order
    clock,                  \* datetime.now(), minutes
    settings,               \* core.config.settings, fixed when the process starts
    hash_order,             \* the iteration order of a set of rule identifiers
    engine,                 \* the DetectionEngine singleton, as _initialize left it
    response,               \* what the last call returned to its caller
    scored_before,          \* history: the response of the call before the last
    analysed,               \* history: the analyze_message calls and their results
    threads                 \* the callers inside ScamAnalytics, each at its line

analytics == <<detections, scam_patterns, brand_mentions, language_distribution>>
startup == <<settings, hash_order, engine>>
vars == <<analytics, ingested, clock, startup, response, scored_before, analysed, threads>>

----------------------------------------------------------------------------
(* Bounds of the model *)

\* Stands for the log capacity, 10000 at tracker.py:50-51, scaled down.
LogCapacity == 2

\* Simulated days the clock may run.
MaxDays == 2

\* Ingests per behaviour: enough to overflow the log.
MaxIngests == LogCapacity + 1

----------------------------------------------------------------------------
(* Python values *)

None == <<>>
Some(v) == <<v>>

\* dict.get(key): None when the key is absent
Get(d, k) == IF k \in DOMAIN d THEN Some(d[k]) ELSE None

Min(a, b) == IF a <= b THEN a ELSE b
Max(a, b) == IF a >= b THEN a ELSE b

RECURSIVE SumSeq(_)
SumSeq(s) == IF s = <<>> THEN 0 ELSE Head(s) + SumSeq(Tail(s))

\* round(num / den, 0) on exact rationals, ties to even as Python's round
RoundDiv(num, den) ==
    LET q == num \div den
        r == num % den
    IN  IF 2 * r < den THEN q
        ELSE IF 2 * r > den THEN q + 1
        ELSE IF q % 2 = 0 THEN q ELSE q + 1

\* s[-n:]
LastN(s, n) == IF Len(s) <= n THEN s ELSE SubSeq(s, Len(s) - n + 1, Len(s))

\* s[:n]
FirstN(s, n) == IF Len(s) <= n THEN s ELSE SubSeq(s, 1, n)

----------------------------------------------------------------------------
(* Time *)

\* datetime.isoformat(): the stored form of a timestamp
isoformat(t) == [hour |-> t \div 60, minute |-> t % 60]

\* datetime.fromisoformat()
fromisoformat(iso) == iso.hour * 60 + iso.minute

\* timestamp.strftime('%Y-%m-%d %H:00'): the hour bucket
hour_key(t) == t \div 60

\* timedelta(hours=h)
timedelta(h) == h * 60

MaxClock == MaxDays * timedelta(24) + 30

\* The clock advances by half an hour right after a day mark, or by a day.
ClockSteps == {30, timedelta(24)}

----------------------------------------------------------------------------
(* Text: a message is a sequence of characters *)

UpperLetters ==
    <<"A", "B", "C", "D", "E", "F", "G", "H", "I", "J", "K", "L", "M",
      "N", "O", "P", "Q", "R", "S", "T", "U", "V", "W", "X", "Y", "Z">>

LowerLetters ==
    <<"a", "b", "c", "d", "e", "f", "g", "h", "i", "j", "k", "l", "m",
      "n", "o", "p", "q", "r", "s", "t", "u", "v", "w", "x", "y", "z">>

Digits == {"0", "1", "2", "3", "4", "5", "6", "7", "8", "9"}

\* characters of the block 0x0600-0x06FF that messages of the model use
UrduChars == {"U+0627", "U+0628", "U+067E"}

\* str.lower() on one character
lower_char(c) ==
    IF \E i \in DOMAIN UpperLetters : UpperLetters[i] = c
    THEN LowerLetters[CHOOSE i \in DOMAIN UpperLetters : UpperLetters[i] = c]
    ELSE c

\* str.lower()
lower(text) == [i \in DOMAIN text |-> lower_char(text[i])]

\* the regex class \w on the characters of the model
is_word_char(c) ==
    \/ \E i \in DOMAIN LowerLetters : LowerLetters[i] = c \/ UpperLetters[i] = c
    \/ c \in Digits
    \/ c \in UrduChars
    \/ c = "_"

\* whether position i of text holds a word character (none outside the text)
word_at(text, i) == i \in DOMAIN text /\ is_word_char(text[i])

\* the regex assertion \b between positions i - 1 and i
word_boundary(text, i) == word_at(text, i - 1) # word_at(text, i)

\* ' '.join(words)
RECURSIVE join(_)
join(words) ==
    IF words = <<>> THEN <<>>
    ELSE IF Len(words) = 1 THEN Head(words)
    ELSE Head(words) \o <<" ">> \o join(Tail(words))

----------------------------------------------------------------------------
(* Regular expressions of the rule tables: a pattern is its alternatives, in
   the order the regex engine tries them, each a literal, with or without \b
   on both sides *)

\* whether literal lit matches text at position i
literal_at(text, lit, i, bounded) ==
    /\ i + Len(lit) - 1 <= Len(text)
    /\ \A k \in DOMAIN lit : text[i + k - 1] = lit[k]
    /\ bounded => (word_boundary(text, i) /\ word_boundary(text, i + Len(lit)))

\* length of the match of pattern at position i, 0 for none
match_at(text, pattern, i) ==
    LET hits == { a \in DOMAIN pattern.alts :
                    literal_at(text, pattern.alts[a], i, pattern.bounded) }
    IN  IF hits = {} THEN 0
        ELSE Len(pattern.alts[CHOOSE a \in hits : \A b \in hits : a <= b])

\* re.search(pattern, text): the position of the leftmost match, 0 for none
search(pattern, text) ==
    LET at == { i \in DOMAIN text : match_at(text, pattern, i) > 0 }
    IN  IF at = {} THEN 0 ELSE CHOOSE i \in at : \A j \in at : i <= j

\* match.group() of the match at position i
group_at(text, pattern, i) == SubSeq(text, i, i + match_at(text, pattern, i) - 1)

\* [m.group() for m in re.finditer(pattern, text)], scanning from position i:
\* the leftmost match at or after i, then the scan goes on behind it
RECURSIVE finditer_from(_, _, _)
finditer_from(pattern, text, i) ==
    LET at == { j \in i..Len(text) : match_at(text, pattern, j) > 0 }
        first == CHOOSE j \in at : \A k \in at : j <= k
    IN  IF at = {} THEN <<>>
        ELSE <<group_at(text, pattern, first)>>
             \o finditer_from(pattern, text, first + match_at(text, pattern, first))

\* list(re.finditer(pattern, text))
finditer(pattern, text) == finditer_from(pattern, text, 1)

----------------------------------------------------------------------------
(* RuleDetector: the rule tables of _load_rules *)

\* RuleDetector.BRANDS, in dictionary order
BRANDS ==
    << [ category |-> "pakistan_financial",
         patterns |->
           << [alts |-> << <<"e", "a", "s", "y", "p", "a", "i", "s", "a">> >>, bounded |-> TRUE],
              [alts |-> << <<"j", "a", "z", "z", "c", "a", "s", "h">> >>, bounded |-> TRUE],
              [alts |-> << <<"h", "b", "l">> >>, bounded |-> TRUE],
              [alts |-> << <<"u", "b", "l">> >>, bounded |-> TRUE],
              [alts |-> << <<"m", "e", "e", "z", "a", "n">> >>, bounded |-> TRUE],
              [alts |-> << <<"a", "l", "l", "y">> >>, bounded |-> TRUE],
              [alts |-> << <<"f", "a", "y", "s", "a", "l">> >>, bounded |-> TRUE],
              [alts |-> << <<"h", "a", "b", "i", "b">> >>, bounded |-> TRUE] >> ],
       [ category |-> "global_financial",
         patterns |->
           << [alts |-> << <<"p", "a", "y", "p", "a", "l">> >>, bounded |-> TRUE],
              [alts |-> << <<"s", "t", "r", "i", "p", "e">> >>, bounded |-> TRUE],
              [alts |-> << <<"w", "e", "s", "t", "e", "r", "n", " ", "u", "n", "i", "o", "n">> >>, bounded |-> TRUE] >> ],
       [ category |-> "global_tech",
         patterns |->
           << [alts |-> << <<"w", "h", "a", "t", "s", "a", "p", "p">> >>, bounded |-> TRUE],
              [alts |-> << <<"g", "o", "o", "g", "l", "e">> >>, bounded |-> TRUE],
              [alts |-> << <<"a", "m", "a", "z", "o", "n">> >>, bounded |-> TRUE] >> ],
       [ category |-> "government",
         patterns |->
           << [alts |-> << <<"f", "b", "r">> >>, bounded |-> TRUE],
              [alts |-> << <<"n", "a", "d", "r", "a">> >>, bounded |-> TRUE],
              [alts |-> << <<"i", "r", "s">> >>, bounded |-> TRUE] >> ] >>

\* RuleDetector.URGENCY_KEYWORDS; urgent(ly)? and expir(e|ing|ed) by alternative
URGENCY_KEYWORDS ==
    << [alts |-> << <<"u", "r", "g", "e", "n", "t", "l", "y">>, <<"u", "r", "g", "e", "n", "t">> >>, bounded |-> TRUE],
       [alts |-> << <<"i", "m", "m", "e", "d", "i", "a", "t", "e", "l", "y">> >>, bounded |-> TRUE],
       [alts |-> << <<"a", "s", "a", "p">> >>, bounded |-> TRUE],
       [alts |-> << <<"n", "o", "w">> >>, bounded |-> TRUE],
       [alts |-> << <<"t", "o", "d", "a", "y">> >>, bounded |-> TRUE],
       [alts |-> << <<"e", "x", "p", "i", "r", "e">>, <<"e", "x", "p", "i", "r", "i", "n", "g">>, <<"e", "x", "p", "i", "r", "e", "d">> >>, bounded |-> TRUE] >>

\* RuleDetector.SENSITIVE_DATA
SENSITIVE_DATA ==
    << [alts |-> << <<"o", "t", "p">> >>, bounded |-> TRUE],
       [alts |-> << <<"p", "i", "n">> >>, bounded |-> TRUE],
       [alts |-> << <<"p", "a", "s", "s", "w", "o", "r", "d">> >>, bounded |-> TRUE],
       [alts |-> << <<"c", "v", "v">> >>, bounded |-> TRUE],
       [alts |-> << <<"c", "n", "i", "c">> >>, bounded |-> TRUE] >>

\* the pattern bit\.ly|tinyurl of the URL detection, which has no \b
SHORTENED_URL ==
    [alts |-> << <<"b", "i", "t", ".", "l", "y">>, <<"t", "i", "n", "y", "u", "r", "l">> >>, bounded |-> FALSE]

\* f'brand_impersonation_{category}'
brand_rule(category) ==
    CASE category = "pakistan_financial" -> "brand_impersonation_pakistan_financial"
      [] category = "global_financial" -> "brand_impersonation_global_financial"
      [] category = "global_tech" -> "brand_impersonation_global_tech"
      [] category = "government" -> "brand_impersonation_government"

\* the score increments of RuleDetector.analyze, in hundredths
BRAND_SCORE == 15
URGENCY_STEP == 10
URGENCY_CAP == 25
SENSITIVE_SCORE == 25
SHORTENED_URL_SCORE == 25

\* the keyword the URL detection appends, 'shortened_url'
SHORTENED_URL_KEYWORD == <<"s", "h", "o", "r", "t", "e", "n", "e", "d", "_", "u", "r", "l">>

\* every rule identifier analyze can append
RuleIds ==
    <<"brand_impersonation_pakistan_financial", "brand_impersonation_global_financial",
      "brand_impersonation_global_tech", "brand_impersonation_government",
      "urgency_language", "sensitive_data_request", "shortened_url">>

----------------------------------------------------------------------------
(* RuleDetector.analyze *)

\* the patterns of a list that re.search finds in the text, in list order
found_patterns(patterns, text) == SelectSeq(patterns, LAMBDA p : search(p, text) > 0)

\* match.group() of the first match of each pattern of a list
first_groups(patterns, text) ==
    { group_at(text, patterns[i], search(patterns[i], text)) : i \in DOMAIN patterns }

\* the brand loop: one entry of triggered_rules, and 0.15, per matching pattern
RECURSIVE brand_detection(_, _)
brand_detection(categories, text) ==
    IF categories = <<>> THEN [triggered |-> <<>>, score |-> 0, keywords |-> {}]
    ELSE LET found == found_patterns(Head(categories).patterns, text)
             rest == brand_detection(Tail(categories), text)
         IN  [ triggered |-> [i \in DOMAIN found |-> brand_rule(Head(categories).category)]
                             \o rest.triggered,
               score |-> Len(found) * BRAND_SCORE + rest.score,
               keywords |-> first_groups(found, text) \cup rest.keywords ]

\* the urgency loop: every match of every urgency pattern
RECURSIVE urgency_matches(_, _)
urgency_matches(patterns, text) ==
    IF patterns = <<>> THEN <<>>
    ELSE finditer(Head(patterns), text) \o urgency_matches(Tail(patterns), text)

\* the urgency contribution as a flat 0.25 for any match
urgency_score_flat(urgency_count) == URGENCY_CAP

\* urgency_count * 0.1 capped at 0.25
urgency_score(urgency_count) == Min(urgency_count * URGENCY_STEP, URGENCY_CAP)

\* the score before the final clamp, from what the four detections found
raw_score(brands, urgency, sensitive, url_found) ==
    brands.score
    + (IF urgency # <<>> THEN urgency_score(Len(urgency)) ELSE 0)
    + (IF sensitive # <<>> THEN SENSITIVE_SCORE ELSE 0)
    + (IF url_found THEN SHORTENED_URL_SCORE ELSE 0)

\* the score left as it is, without the min
unclamped(score) == score

\* score = min(score, 1.0)
clamped(score) == Min(score, 100)

\* triggered_rules before list(set(...)), with its repetitions
triggered_list(brands, urgency, sensitive, url_found) ==
    brands.triggered
    \o (IF urgency # <<>> THEN <<"urgency_language">> ELSE <<>>)
    \o (IF sensitive # <<>> THEN <<"sensitive_data_request">> ELSE <<>>)
    \o (IF url_found THEN <<"shortened_url">> ELSE <<>>)

\* keywords before list(set(...)): the sensitive-data loop stops at its first hit
keyword_set(text, brands, urgency, sensitive, url_found) ==
    brands.keywords
    \cup { urgency[i] : i \in DOMAIN urgency }
    \cup (IF sensitive # <<>> THEN first_groups(<<Head(sensitive)>>, text) ELSE {})
    \cup (IF url_found THEN {SHORTENED_URL_KEYWORD} ELSE {})

\* list(set(items)) for rule identifiers: the order is that of the process's
\* string hashes, a permutation of the identifiers fixed when the process starts
set_to_list(items, order) ==
    SelectSeq(order, LAMBDA r : \E i \in DOMAIN items : items[i] = r)

\* the result of analyze from what the four detections found in the text
rule_findings(text, brands, urgency, sensitive, url_found, order) ==
    [ score |-> clamped(raw_score(brands, urgency, sensitive, url_found)),
      triggered_rules |->
          set_to_list(triggered_list(brands, urgency, sensitive, url_found), order),
      keywords |-> keyword_set(text, brands, urgency, sensitive, url_found) ]

\* the four detections of analyze on the lower-cased text
analyze_lower(text, order) ==
    rule_findings(text, brand_detection(BRANDS, text), urgency_matches(URGENCY_KEYWORDS, text),
                found_patterns(SENSITIVE_DATA, text), search(SHORTENED_URL, text) > 0, order)

\* RuleDetector.analyze; lang_info is not read
analyze(message, order) == analyze_lower(lower(message), order)

----------------------------------------------------------------------------
(* LanguageProcessor *)

\* LanguageProcessor.ROMAN_URDU_WORDS
ROMAN_URDU_WORDS ==
    << <<"a", "a", "p">>, <<"a", "p", "k", "a">>, <<"h", "a", "i">>, <<"m", "e", "i", "n">>,
       <<"k", "o">>, <<"k", "a">>, <<"f", "o", "r", "a", "n">>, <<"a", "b", "h", "i">> >>

\* the translations of _translate_roman_urdu, in dictionary order
ROMAN_URDU_TRANSLATIONS ==
    << [urdu |-> <<"f", "o", "r", "a", "n">>,
        english |-> <<"i", "m", "m", "e", "d", "i", "a", "t", "e", "l", "y">>],
       [urdu |-> <<"a", "b", "h", "i">>, english |-> <<"n", "o", "w">>],
       [urdu |-> <<"a", "a", "p">>, english |-> <<"y", "o", "u">>],
       [urdu |-> <<"a", "p", "k", "a">>, english |-> <<"y", "o", "u", "r">>],
       [urdu |-> <<"h", "a", "i">>, english |-> <<"i", "s">>] >>

\* the thresholds and the default confidence of _detect_language
URDU_CHAR_THRESHOLD == 5
ROMAN_URDU_THRESHOLD == 2
ENGLISH_CONFIDENCE == 95

\* word in text_lower: substring containment
contains(text, word) == \E i \in DOMAIN text : literal_at(text, word, i, FALSE)

\* len(text.split()): the number of maximal runs of non-blank characters
word_count(text) ==
    Cardinality({ i \in DOMAIN text : text[i] # " " /\ (i = 1 \/ text[i - 1] = " ") })

\* LanguageProcessor._detect_language; the confidence is the fraction num/den
_detect_language(text) ==
    LET urdu_chars == Cardinality({ i \in DOMAIN text : text[i] \in UrduChars })
        text_lower == lower(text)
        roman_count == Cardinality({ w \in DOMAIN ROMAN_URDU_WORDS :
                                       contains(text_lower, ROMAN_URDU_WORDS[w]) })
    IN  IF urdu_chars > URDU_CHAR_THRESHOLD
        THEN [language |-> "urdu", num |-> urdu_chars, den |-> Max(Len(text), 1)]
        ELSE IF roman_count >= ROMAN_URDU_THRESHOLD
        THEN [language |-> "roman_urdu", num |-> roman_count,
              den |-> Max(word_count(text), 1)]
        ELSE [language |-> "english", num |-> ENGLISH_CONFIDENCE, den |-> 100]

\* str.strip() and re.sub(r'\s+', ' ', ...): blank runs become one blank
RECURSIVE normalize_blanks(_)
normalize_blanks(text) ==
    IF text = <<>> THEN <<>>
    ELSE IF Head(text) = " " /\ (Len(text) = 1 \/ text[2] = " ")
         THEN normalize_blanks(Tail(text))
         ELSE <<Head(text)>> \o normalize_blanks(Tail(text))

strip_left(text) == IF text # <<>> /\ Head(text) = " " THEN Tail(text) ELSE text

\* re.sub(r'\b' + urdu + r'\b', english, text), scanning from position i
RECURSIVE sub_word_from(_, _, _, _)
sub_word_from(text, urdu, english, i) ==
    LET at == { j \in i..Len(text) : literal_at(text, urdu, j, TRUE) }
        first == CHOOSE j \in at : \A k \in at : j <= k
    IN  IF at = {} THEN SubSeq(text, i, Len(text))
        ELSE SubSeq(text, i, first - 1) \o english
             \o sub_word_from(text, urdu, english, first + Len(urdu))

\* LanguageProcessor._translate_roman_urdu
RECURSIVE _translate_roman_urdu(_, _)
_translate_roman_urdu(text, translations) ==
    IF translations = <<>> THEN text
    ELSE _translate_roman_urdu(
             sub_word_from(text, Head(translations).urdu, Head(translations).english, 1),
             Tail(translations))

\* LanguageProcessor.process
process(message, language_hint) ==
    LET detected == IF language_hint = "auto" THEN _detect_language(message)
                    ELSE [language |-> language_hint, num |-> 1, den |-> 1]
        processed == strip_left(normalize_blanks(lower(message)))
    IN  [ language |-> detected.language,
          confidence |-> [num |-> detected.num, den |-> detected.den],
          processed_text |-> IF detected.language = "roman_urdu"
                             THEN _translate_roman_urdu(processed, ROMAN_URDU_TRANSLATIONS)
                             ELSE processed,
          original_text |-> message ]

----------------------------------------------------------------------------
(* Settings (core/config.py): weights and thresholds in hundredths *)

ML_WEIGHT == 65
RULE_WEIGHT == 35
SCAM_THRESHOLD == 75
SUSPICIOUS_THRESHOLD == 45
MAX_MESSAGE_LENGTH == 5000

\* the settings when no environment variable is set
DefaultSettings ==
    [ ENABLE_ML |-> TRUE, ENABLE_ANALYTICS |-> TRUE,
      ML_WEIGHT |-> ML_WEIGHT, RULE_WEIGHT |-> RULE_WEIGHT,
      SCAM_THRESHOLD |-> SCAM_THRESHOLD, SUSPICIOUS_THRESHOLD |-> SUSPICIOUS_THRESHOLD,
      MAX_MESSAGE_LENGTH |-> MAX_MESSAGE_LENGTH ]

----------------------------------------------------------------------------
(* DetectionEngine: the score combiner *)

\* final = ml_score * ml_weight + rule_score * rule_weight without the min
_calculate_final_score_unclamped(ml_score, rule_score) ==
    ml_score * settings.ML_WEIGHT + rule_score * settings.RULE_WEIGHT

\* the final score with both weights taken as 1
_calculate_final_score_unweighted(ml_score, rule_score) ==
    Min(ml_score * 100 + rule_score * 100, 100 * 100)

\* DetectionEngine._calculate_final_score, in ten-thousandths
_calculate_final_score(ml_score, rule_score) ==
    Min(ml_score * settings.ML_WEIGHT + rule_score * settings.RULE_WEIGHT, 100 * 100)

\* _classify with > for >= at the scam threshold
_classify_strict(score) ==
    IF score > settings.SCAM_THRESHOLD * 100 THEN "SCAM"
    ELSE IF score >= settings.SUSPICIOUS_THRESHOLD * 100 THEN "SUSPICIOUS"
    ELSE "SAFE"

\* _classify with the second comparison turned round
_classify_flipped(score) ==
    IF score >= settings.SCAM_THRESHOLD * 100 THEN "SCAM"
    ELSE IF score <= settings.SUSPICIOUS_THRESHOLD * 100 THEN "SUSPICIOUS"
    ELSE "SAFE"

\* DetectionEngine._classify, on a score in ten-thousandths
_classify(score) ==
    IF score >= settings.SCAM_THRESHOLD * 100 THEN "SCAM"
    ELSE IF score >= settings.SUSPICIOUS_THRESHOLD * 100 THEN "SUSPICIOUS"
    ELSE "SAFE"

\* abs
Abs(x) == IF x < 0 THEN -x ELSE x

\* _calculate_confidence without the branch for an ML score of 0
_calculate_confidence_one_branch(ml_score, rule_score) ==
    Min(3 * (ml_score + rule_score) * (100 - Abs(ml_score - rule_score)), 40000)

\* DetectionEngine._calculate_confidence, in units of 1/40000:
\* rule * 1.2 is 480 * rule, and avg * agreement * 1.5 is
\* 3 * (ml + rule) * (100 - |ml - rule|)
_calculate_confidence(ml_score, rule_score) ==
    IF ml_score = 0 THEN Min(480 * rule_score, 40000)
    ELSE Min(3 * (ml_score + rule_score) * (100 - Abs(ml_score - rule_score)), 40000)

\* steps 4 and 7 of analyze_message: the combination, the classification, the
\* confidence and the reported risk_score, round(final_score * 100, 2), which
\* in hundredths of a point is the final score in ten-thousandths
combine(ml_score, rule_score) ==
    LET final_score == _calculate_final_score(ml_score, rule_score)
    IN  [ ml_score |-> ml_score,
          rule_score |-> rule_score,
          final_score |-> final_score,
          classification |-> _classify(final_score),
          confidence |-> _calculate_confidence(ml_score, rule_score),
          risk_score |-> final_score ]

----------------------------------------------------------------------------
(* DetectionEngine: construction and the analysis pipeline *)

\* DetectionEngine._initialize.  With ENABLE_ML it calls
\* EnhancedMLDetector(model_type=..., model_path=...), whose __init__ takes no
\* argument: the construction raises TypeError.  The analytics tracker main.py
\* imports as AnalyticsTracker is taken to be tracker.py's ScamAnalytics.
_initialize ==
    IF settings.ENABLE_ML THEN [status |-> "TypeError"]
    ELSE [status |-> "ready", ml_detector |-> None, analytics |-> settings.ENABLE_ANALYTICS]

\* DetectionEngine._generate_hash: sha256 of the raw message
_generate_hash(message) == [sha256 |-> message]

\* step 2 of analyze_message: without a detector the ML score is 0.0
ml_score_of(processed_text) == 0

\* step 7 of analyze_message: the result dictionary (the explanation and
\* recommendation lines are renderings of these fields)
result_of(message, lang_info, rule_result, combined) ==
    [ classification |-> combined.classification,
      risk_score |-> combined.risk_score,
      ml_score |-> combined.ml_score,
      rule_score |-> combined.rule_score,
      confidence |-> combined.confidence,
      highlighted_keywords |-> rule_result.keywords,
      triggered_rules |-> rule_result.triggered_rules,
      language_info |-> [detected |-> lang_info.language,
                         confidence |-> lang_info.confidence],
      analyzed_at |-> isoformat(clock),
      message_hash |-> _generate_hash(message) ]

\* steps 3, 4 and 7 of analyze_message, from the language information
scored_result(message, lang_info, rule_result) ==
    result_of(message, lang_info, rule_result,
              combine(ml_score_of(lang_info.processed_text), rule_result.score))

\* analyze_message with the risk score raised by a hundredth of a point for
\* every record the log holds
analyze_message_counting_log(message, language) ==
    LET result == scored_result(message, process(message, language),
                                analyze(message, hash_order))
    IN  [result EXCEPT !.risk_score = @ + Len(detections)]

\* DetectionEngine.analyze_message, steps 1 to 7
analyze_message(message, language) ==
    scored_result(message, process(message, language), analyze(message, hash_order))

----------------------------------------------------------------------------
(* Rule identifiers *)

\* 'brand_impersonation_' + category, for the categories of RuleDetector.BRANDS
BrandRules ==
    { "brand_impersonation_pakistan_financial", "brand_impersonation_global_financial",
      "brand_impersonation_global_tech", "brand_impersonation_government" }

\* 'brand_impersonation' in rule
is_brand_rule(rule) == rule \in BrandRules

\* rule.replace('brand_impersonation_', '')
brand_of(rule) ==
    CASE rule = "brand_impersonation_pakistan_financial" -> "pakistan_financial"
      [] rule = "brand_impersonation_global_financial" -> "global_financial"
      [] rule = "brand_impersonation_global_tech" -> "global_tech"
      [] rule = "brand_impersonation_government" -> "government"
      [] OTHER -> rule

----------------------------------------------------------------------------
(* Counter: an insertion-ordered list of [key, count], as a Python dict is *)

counter_keys(c) == { c[i].key : i \in DOMAIN c }

\* Counter[k]: 0 for a missing key
counter_get(c, k) ==
    IF k \in counter_keys(c)
    THEN c[CHOOSE i \in DOMAIN c : c[i].key = k].count
    ELSE 0

\* Counter[k] += 1
counter_add(c, k) ==
    IF k \in counter_keys(c)
    THEN [i \in DOMAIN c |->
            IF c[i].key = k THEN [key |-> k, count |-> c[i].count + 1] ELSE c[i]]
    ELSE Append(c, [key |-> k, count |-> 1])

\* for k in keys: Counter[k] += 1
RECURSIVE counter_add_all(_, _)
counter_add_all(c, keys) ==
    IF keys = <<>> THEN c
    ELSE counter_add_all(counter_add(c, Head(keys)), Tail(keys))

\* s without its i-th element
RemoveAt(s, i) == SubSeq(s, 1, i - 1) \o SubSeq(s, i + 1, Len(s))

\* sorted(items, key=count, reverse=True): stable, ties stay in insertion order
RECURSIVE sorted_by_count(_)
sorted_by_count(c) ==
    IF c = <<>> THEN <<>>
    ELSE LET first == CHOOSE i \in DOMAIN c :
                        /\ \A j \in DOMAIN c : c[j].count <= c[i].count
                        /\ \A j \in 1..(i - 1) : c[j].count < c[i].count
         IN  <<c[first]>> \o sorted_by_count(RemoveAt(c, first))

\* Counter.most_common(n)
most_common(c, n) == FirstN(sorted_by_count(c), n)

----------------------------------------------------------------------------
(* ScamAnalytics: ingestion *)

\* The record log_detection builds from an analysis result and the raw message.
\* The digest is sha256 of the raw message, modelled as a tag on the text it is
\* taken over; the result of _anonymize_message is not used by the record.
detection_record(analysis_result, message) ==
    [ timestamp       |-> isoformat(clock),
      classification  |-> Get(analysis_result, "classification"),
      risk_score      |-> Get(analysis_result, "risk_score"),
      ml_probability  |-> Get(analysis_result, "ml_probability"),
      rule_score      |-> Get(analysis_result, "rule_score"),
      triggered_rules |-> IF "triggered_rules" \in DOMAIN analysis_result
                          THEN analysis_result.triggered_rules ELSE <<>>,
      language        |-> Get(analysis_result, "language_detected"),
      message_hash    |-> [sha256 |-> message],
      message_length  |-> Len(message),
      has_urls        |-> IF "highlighted_keywords" \in DOMAIN analysis_result
                          THEN Cardinality(analysis_result.highlighted_keywords) > 0
                          ELSE FALSE ]

\* the brands of the brand-impersonation rules of a rule list, in order
RECURSIVE brands_in(_)
brands_in(rules) ==
    IF rules = <<>> THEN <<>>
    ELSE (IF is_brand_rule(Head(rules)) THEN <<brand_of(Head(rules))>> ELSE <<>>)
         \o brands_in(Tail(rules))

\* the truncation keeping the oldest records, self.detections[:10000]
truncated_keeps_oldest(log) ==
    IF Len(log) > LogCapacity THEN FirstN(log, LogCapacity) ELSE log

\* self.detections after the append and the truncation to the last 10,000
truncated(log) ==
    IF Len(log) > LogCapacity THEN LastN(log, LogCapacity) ELSE log

\* ScamAnalytics._update_counters (primes the three counters)
_update_counters(record) ==
    /\ scam_patterns' = counter_add_all(scam_patterns, record.triggered_rules)
    /\ language_distribution' =
          IF record.language # None
          THEN counter_add(language_distribution, record.language[1])
          ELSE language_distribution
    /\ brand_mentions' = counter_add_all(brand_mentions, brands_in(record.triggered_rules))

\* ScamAnalytics.log_detection run by one caller from its first line to its last
log_detection(analysis_result, message) ==
    \E record \in {detection_record(analysis_result, message)} :
        /\ detections' = truncated(Append(detections, record))
        /\ _update_counters(record)
        /\ ingested' = Append(ingested, record)

----------------------------------------------------------------------------
(* ScamAnalytics._anonymize_message: five re.sub stages, in the order of the
   code.  Each stage is the length of its pattern's match at a position (0 for
   none), found as the regex engine finds it, greedy and backtracking. *)

\* the stages, in the order _anonymize_message applies them
STAGES == <<"phone", "cnic", "email", "card", "url">>

\* the replacement string of a stage
placeholder(stage) ==
    CASE stage = "phone" -> <<"[", "P", "H", "O", "N", "E", "]">>
      [] stage = "cnic" -> <<"[", "C", "N", "I", "C", "]">>
      [] stage = "email" -> <<"[", "E", "M", "A", "I", "L", "]">>
      [] stage = "card" -> <<"[", "C", "A", "R", "D", "]">>
      [] stage = "url" -> <<"[", "U", "R", "L", "]">>

\* the character classes of the patterns: \d, \w, [\w.-], [\s-] and [^\s]
in_class(c, class) ==
    CASE class = "digit" -> c \in Digits
      [] class = "word" -> is_word_char(c)
      [] class = "name" -> is_word_char(c) \/ c = "." \/ c = "-"
      [] class = "separator" -> c = " " \/ c = "-"
      [] class = "nonspace" -> c # " "

\* whether position i of text holds a character of the class
class_at(text, i, class) == i \in DOMAIN text /\ in_class(text[i], class)

\* the number of characters of the class that follow one another from position i
run(text, i, class) ==
    LET stops == { j \in i..(Len(text) + 1) : ~class_at(text, j, class) }
    IN  (CHOOSE j \in stops : \A k \in stops : j <= k) - i

\* whether position i of text holds the character c
char_at(text, i, c) == i \in DOMAIN text /\ text[i] = c

\* \d{n} at position i
digits_at(text, i, n) == \A k \in 0..(n - 1) : class_at(text, i + k, "digit")

\* \b\d{10,}\b : the whole digit run, when it is at least 10 long and stands
\* between word boundaries (a shorter take would end between two digits)
phone_match(text, i) ==
    LET n == run(text, i, "digit")
    IN  IF word_boundary(text, i) /\ n >= 10 /\ word_boundary(text, i + n) THEN n ELSE 0

\* \b\d{5}-\d{7}-\d{1}\b
cnic_match(text, i) ==
    IF /\ word_boundary(text, i)
       /\ digits_at(text, i, 5) /\ char_at(text, i + 5, "-")
       /\ digits_at(text, i + 6, 7) /\ char_at(text, i + 13, "-")
       /\ digits_at(text, i + 14, 1)
       /\ word_boundary(text, i + 15)
    THEN 15 ELSE 0

\* \b[\w.-]+@[\w.-]+\.\w+\b : the name up to the @, then the longest domain
\* that still leaves a dot and a word behind it
email_match(text, i) ==
    LET name == run(text, i, "name")
        at == i + name
        domain == run(text, at + 1, "name")
        dots == { p \in (at + 2)..(at + domain) :
                    text[p] = "." /\ class_at(text, p + 1, "word") }
        last == CHOOSE p \in dots : \A q \in dots : q <= p
    IN  IF /\ word_boundary(text, i)
           /\ name >= 1
           /\ char_at(text, at, "@")
           /\ dots # {}
        THEN last + run(text, last + 1, "word") + 1 - i
        ELSE 0

\* the position behind \d{4}[\s-]? at position i, 0 when the digits are not there
card_group(text, i) ==
    IF i = 0 \/ ~digits_at(text, i, 4) THEN 0
    ELSE IF class_at(text, i + 4, "separator") THEN i + 5 ELSE i + 4

\* \b\d{4}[\s-]?\d{4}[\s-]?\d{4}[\s-]?\d{4}\b
card_match(text, i) ==
    LET fourth == card_group(text, card_group(text, card_group(text, i)))
    IN  IF /\ word_boundary(text, i)
           /\ fourth # 0
           /\ digits_at(text, fourth, 4)
           /\ word_boundary(text, fourth + 4)
        THEN fourth + 4 - i
        ELSE 0

\* https?://[^\s]+
url_match(text, i) ==
    LET http == <<"h", "t", "t", "p">>
        rest == IF char_at(text, i + 4, "s") THEN i + 5 ELSE i + 4
        slashes == <<":", "/", "/">>
        tail == run(text, rest + 3, "nonspace")
    IN  IF /\ literal_at(text, http, i, FALSE)
           /\ literal_at(text, slashes, rest, FALSE)
           /\ tail >= 1
        THEN rest + 3 + tail - i
        ELSE 0

\* the length of the stage's match at position i
stage_match(stage, text, i) ==
    CASE stage = "phone" -> phone_match(text, i)
      [] stage = "cnic" -> cnic_match(text, i)
      [] stage = "email" -> email_match(text, i)
      [] stage = "card" -> card_match(text, i)
      [] stage = "url" -> url_match(text, i)

\* re.sub(pattern, placeholder, text) from position i on: the leftmost match
\* is replaced and the scan goes on behind it
RECURSIVE sub_from(_, _, _)
sub_from(stage, text, i) ==
    LET at == { j \in i..Len(text) : stage_match(stage, text, j) > 0 }
        first == CHOOSE j \in at : \A k \in at : j <= k
    IN  IF at = {} THEN SubSeq(text, i, Len(text))
        ELSE SubSeq(text, i, first - 1) \o placeholder(stage)
             \o sub_from(stage, text, first + stage_match(stage, text, first))

\* re.sub(pattern, placeholder, text)
sub(stage, text) == sub_from(stage, text, 1)

\* the message after the first n stages
RECURSIVE after_stages(_, _)
after_stages(message, n) ==
    IF n = 0 THEN message ELSE sub(STAGES[n], after_stages(message, n - 1))

\* ScamAnalytics._anonymize_message
_anonymize_message(message) == after_stages(message, Len(STAGES))

----------------------------------------------------------------------------
(* EnhancedMLDetector (detection/ml_detector.py): the URL features and the
   feature-derived score of predict_advanced.  Scores are in hundredths, the
   final probability in ten-thousandths. *)

\* suspicious_tlds of analyze_url_features
SUSPICIOUS_TLDS ==
    <<<<".", "x", "y", "z">>,
      <<".", "i", "n", "f", "o">>,
      <<".", "t", "k">>,
      <<".", "m", "l">>,
      <<".", "g", "a">>,
      <<".", "c", "f">>,
      <<".", "g", "q">>,
      <<".", "t", "o", "p">>,
      <<".", "c", "l", "u", "b">>>>

\* shorteners of analyze_url_features
SHORTENERS ==
    <<<<"b", "i", "t", ".", "l", "y">>,
      <<"t", "i", "n", "y", "u", "r", "l">>,
      <<"g", "o", "o", ".", "g", "l">>,
      <<"t", ".", "c", "o">>,
      <<"o", "w", ".", "l", "y">>,
      <<"b", "u", "f", "f", ".", "l", "y">>,
      <<"a", "d", "f", ".", "l", "y">>>>

\* any(item in url.lower() for item in items)
any_in(url, items) == \E k \in DOMAIN items : contains(lower(url), items[k])

\* re.search(r'\d{1,3}\.\d{1,3}\.\d{1,3}\.\d{1,3}', url): a digit, a dot, two
\* digit runs of one to three each followed by a dot, and a digit
has_ip(url) ==
    \E i \in DOMAIN url :
        LET second == run(url, i + 2, "digit")
            third == run(url, i + 3 + second, "digit")
        IN  /\ class_at(url, i, "digit")
            /\ char_at(url, i + 1, ".")
            /\ second \in 1..3
            /\ char_at(url, i + 2 + second, ".")
            /\ third \in 1..3
            /\ char_at(url, i + 3 + second + third, ".")
            /\ class_at(url, i + 4 + second + third, "digit")

\* url.startswith('https://')
is_https(url) == literal_at(url, <<"h", "t", "t", "p", "s", ":", "/", "/">>, 1, FALSE)

\* AdvancedTextAnalyzer.analyze_url_features, the features that enter the
\* feature vector; avg_url_length is np.mean of the lengths, in hundredths
analyze_url_features(urls) ==
    IF urls = <<>>
    THEN [ url_count |-> 0, has_suspicious_tld |-> FALSE, has_ip_address |-> FALSE,
           has_shortened_url |-> FALSE, avg_url_length |-> 0, has_https |-> FALSE ]
    ELSE [ url_count |-> Len(urls),
           has_suspicious_tld |-> \E u \in DOMAIN urls : any_in(urls[u], SUSPICIOUS_TLDS),
           has_ip_address |-> \E u \in DOMAIN urls : has_ip(urls[u]),
           has_shortened_url |-> \E u \in DOMAIN urls : any_in(urls[u], SHORTENERS),
           avg_url_length |-> (100 * SumSeq([u \in DOMAIN urls |-> Len(urls[u])])) \div Len(urls),
           has_https |-> \E u \in DOMAIN urls : is_https(urls[u]) ]

\* 1 if flag else 0
bit(flag) == IF flag THEN 1 ELSE 0

\* EnhancedMLDetector.extract_all_features: the vector of 25 numbers, in the
\* order of the code.  The 14 linguistic and the 4 behavioural numbers and the
\* template count are computed from the text alone and are given here.
extract_all_features(linguistic, urls, behaviour, template_count) ==
    LET url_features == analyze_url_features(urls)
    IN  linguistic
        \o << url_features.url_count,
              bit(url_features.has_suspicious_tld),
              bit(url_features.has_ip_address),
              bit(url_features.has_shortened_url),
              url_features.avg_url_length,
              bit(url_features.has_https) >>
        \o behaviour
        \o <<template_count>>

\* features[k] of a numpy array: the index counts from 0
item(features, k) == features[k + 1]

\* url_risk of predict_advanced: 0.2, 0.25 and 0.2 for features[16],
\* features[18] and features[17]
url_risk(features) ==
    (IF item(features, 16) # 0 THEN 20 ELSE 0)
    + (IF item(features, 18) # 0 THEN 25 ELSE 0)
    + (IF item(features, 17) # 0 THEN 20 ELSE 0)

\* EnhancedMLDetector.predict_advanced on the TF-IDF probability of the text
\* model (hundredths) and the feature vector
predict_advanced(tfidf_prob, features) ==
    LET breakdown ==
            [ urgency_risk |-> Min(item(features, 8) * 15, 30),
              emotion_risk |-> Min(item(features, 9) * 10, 20),
              action_risk |-> Min(item(features, 10) * 12, 25),
              url_risk |-> url_risk(features),
              template_risk |-> Min(features[Len(features)] * 15, 30) ]
        feature_based_score ==
            Min(breakdown.urgency_risk + breakdown.emotion_risk + breakdown.action_risk
                + breakdown.url_risk + breakdown.template_risk, 100)
    IN  [ ml_probability |-> tfidf_prob * 70 + feature_based_score * 30,
          tfidf_score |-> tfidf_prob,
          feature_score |-> feature_based_score,
          feature_breakdown |-> breakdown ]

----------------------------------------------------------------------------
(* ScamAnalytics: windowed statistics *)

\* limit=10 of _get_top_patterns, most_common(10) of _get_brand_stats,
\* emerging[:5] and the two windows of get_emerging_threats
TopPatternLimit == 10
BrandLimit == 10
EmergingLimit == 5
RecentWindowHours == 24
OlderWindowHours == 48

\* the filter with the cutoff itself inside the window (>= for >)
recent_detections_inclusive(hours) ==
    SelectSeq(detections, LAMBDA d : fromisoformat(d.timestamp) >= clock - timedelta(hours))

\* [d for d in self.detections if fromisoformat(d['timestamp']) > now - timedelta(hours)]
recent_detections(hours) ==
    SelectSeq(detections, LAMBDA d : fromisoformat(d.timestamp) > clock - timedelta(hours))

\* [d for d in recent if d['classification'] == label]
with_classification(recent, label) ==
    SelectSeq(recent, LAMBDA d : d.classification = Some(label))

\* ScamAnalytics._get_pattern_description; for a name it does not list, the
\* name with blanks for underscores, in title case
_get_pattern_description(pattern) ==
    CASE pattern = "brand_impersonation_pakistan_financial" -> "Easypaisa/JazzCash impersonation"
      [] pattern = "brand_impersonation_global_financial" -> "PayPal/Stripe impersonation"
      [] pattern = "brand_impersonation_global_tech" -> "WhatsApp/Google impersonation"
      [] pattern = "brand_impersonation_government" -> "FBR/NADRA impersonation"
      [] pattern = "urgency_language" -> "Urgent action required tactics"
      [] pattern = "suspicious_actions" -> "Multiple action requests (click, verify)"
      [] pattern = "sensitive_data_request" -> "Requests for OTP, PIN, passwords"
      [] pattern = "threat_language" -> "Account suspension threats"
      [] pattern = "financial_manipulation" -> "Prize/reward promises"
      [] pattern = "shortened_url" -> "Shortened URL links (bit.ly, etc.)"
      [] pattern = "suspicious_domain_extension" -> "Suspicious domains (.xyz, .tk)"
      [] pattern = "suspicious_domain_pattern" -> "Phishing domain patterns"
      [] OTHER -> [title |-> pattern]

\* the pattern_counts loop without the test of the classification
RECURSIVE pattern_counts_any_class(_)
pattern_counts_any_class(dets) ==
    IF dets = <<>> THEN <<>>
    ELSE counter_add_all(pattern_counts_any_class(SubSeq(dets, 1, Len(dets) - 1)),
                         dets[Len(dets)].triggered_rules)

\* the pattern_counts loop of _get_top_patterns
RECURSIVE pattern_counts(_)
pattern_counts(dets) ==
    IF dets = <<>> THEN <<>>
    ELSE LET d == dets[Len(dets)]
             before == pattern_counts(SubSeq(dets, 1, Len(dets) - 1))
         IN  IF d.classification \in {Some("SCAM"), Some("SUSPICIOUS")}
             THEN counter_add_all(before, d.triggered_rules)
             ELSE before

\* ScamAnalytics._get_top_patterns
_get_top_patterns(dets, limit) ==
    LET top == most_common(pattern_counts(dets), limit)
    IN  [i \in DOMAIN top |->
            [pattern |-> top[i].key, count |-> top[i].count,
             description |-> _get_pattern_description(top[i].key)]]

\* the brand_counts loop of _get_brand_stats
RECURSIVE brand_counts(_)
brand_counts(dets) ==
    IF dets = <<>> THEN <<>>
    ELSE counter_add_all(brand_counts(SubSeq(dets, 1, Len(dets) - 1)),
                         brands_in(dets[Len(dets)].triggered_rules))

\* ScamAnalytics._get_brand_stats
_get_brand_stats(dets) == most_common(brand_counts(dets), BrandLimit)

\* Counter(d['language'] for d in recent if d.get('language'))
RECURSIVE language_counts(_)
language_counts(dets) ==
    IF dets = <<>> THEN <<>>
    ELSE LET d == dets[Len(dets)]
             before == language_counts(SubSeq(dets, 1, Len(dets) - 1))
         IN  IF d.language # None THEN counter_add(before, d.language[1]) ELSE before

\* sorted(keys)
RECURSIVE sorted_keys(_)
sorted_keys(S) ==
    IF S = {} THEN <<>>
    ELSE LET least == CHOOSE x \in S : \A y \in S : x <= y
         IN  <<least>> \o sorted_keys(S \ {least})

\* hourly_counts of _analyze_trends: hour bucket -> classification counts
hourly_counts(dets) ==
    LET keys == { hour_key(fromisoformat(dets[i].timestamp)) : i \in DOMAIN dets }
        in_hour(h, label) ==
            Len(SelectSeq(dets, LAMBDA d : /\ hour_key(fromisoformat(d.timestamp)) = h
                                           /\ d.classification = Some(label)))
    IN  [h \in keys |-> [scam |-> in_hour(h, "SCAM"),
                         suspicious |-> in_hour(h, "SUSPICIOUS"),
                         safe |-> in_hour(h, "SAFE")]]

\* _analyze_trends comparing the halves by all their records, not their scams
_analyze_trends_by_total(dets) ==
    LET counts == hourly_counts(dets)
        hours == sorted_keys(DOMAIN counts)
        half == Len(hours) \div 2
        records(hs) ==
            SumSeq([i \in DOMAIN hs |->
                      counts[hs[i]].scam + counts[hs[i]].suspicious + counts[hs[i]].safe])
        first_half == records(SubSeq(hours, 1, half))
        second_half == records(SubSeq(hours, half + 1, Len(hours)))
        trend ==
            IF Len(hours) >= 2
            THEN IF 10 * second_half > 12 * first_half THEN "increasing"
                 ELSE IF 10 * second_half < 8 * first_half THEN "decreasing"
                 ELSE "stable"
            ELSE "insufficient_data"
    IN  [trend |-> trend, hourly_breakdown |-> counts]

\* ScamAnalytics._analyze_trends
_analyze_trends(dets) ==
    LET counts == hourly_counts(dets)
        hours == sorted_keys(DOMAIN counts)
        half == Len(hours) \div 2
        scams(hs) == SumSeq([i \in DOMAIN hs |-> counts[hs[i]].scam])
        first_half_scams == scams(SubSeq(hours, 1, half))
        second_half_scams == scams(SubSeq(hours, half + 1, Len(hours)))
        trend ==
            IF Len(hours) >= 2
            THEN IF 10 * second_half_scams > 12 * first_half_scams THEN "increasing"
                 ELSE IF 10 * second_half_scams < 8 * first_half_scams THEN "decreasing"
                 ELSE "stable"
            ELSE "insufficient_data"
    IN  [trend |-> trend, hourly_breakdown |-> counts]

\* ScamAnalytics._get_empty_stats
_get_empty_stats ==
    [ time_period_hours |-> 0,
      total_messages_analyzed |-> 0,
      detection_summary |->
          [scam_count |-> 0, suspicious_count |-> 0, safe_count |-> 0, scam_percentage |-> 0],
      message |-> "No data available for the specified time period" ]

\* the statistics dictionary get_statistics builds from the records in the
\* window (tracker.py:112-135); percentages and averages in hundredths
window_stats(hours, recent) ==
    LET total_analyzed == Len(recent)
        scams == with_classification(recent, "SCAM")
        suspicious == with_classification(recent, "SUSPICIOUS")
        safe == with_classification(recent, "SAFE")
        risk(ds) == SumSeq([i \in DOMAIN ds |-> ds[i].risk_score[1]])
    IN  [ time_period_hours |-> hours,
          total_messages_analyzed |-> total_analyzed,
          detection_summary |->
              [ scam_count |-> Len(scams),
                suspicious_count |-> Len(suspicious),
                safe_count |-> Len(safe),
                scam_percentage |-> IF total_analyzed > 0
                                    THEN RoundDiv(Len(scams) * 10000, total_analyzed)
                                    ELSE 0 ],
          average_risk_scores |->
              [ overall |-> IF total_analyzed > 0
                            THEN RoundDiv(risk(recent), total_analyzed) ELSE 0,
                scams_only |-> IF scams # <<>> THEN RoundDiv(risk(scams), Len(scams))
                               ELSE 0 ],
          top_scam_patterns |-> _get_top_patterns(recent, TopPatternLimit),
          brand_impersonation_stats |-> _get_brand_stats(recent),
          language_distribution |-> language_counts(recent),
          trend_analysis |-> _analyze_trends(recent) ]

\* get_statistics without its "if not recent" return
get_statistics_no_empty_return(hours) == window_stats(hours, recent_detections(hours))

\* ScamAnalytics.get_statistics
get_statistics(hours) ==
    LET recent == recent_detections(hours)
    IN  IF recent = <<>> THEN _get_empty_stats ELSE window_stats(hours, recent)

\* stats.get('top_scam_patterns', []) as the dict {pattern: count}
top_pattern_counts(stats) ==
    IF "top_scam_patterns" \in DOMAIN stats
    THEN [i \in DOMAIN stats.top_scam_patterns |->
            [key |-> stats.top_scam_patterns[i].pattern,
             count |-> stats.top_scam_patterns[i].count]]
    ELSE <<>>

\* the loop of get_emerging_threats without its condition: every recent pattern
RECURSIVE emerging_of_all(_, _)
emerging_of_all(recent_patterns, older_patterns) ==
    IF recent_patterns = <<>> THEN <<>>
    ELSE LET pattern == Head(recent_patterns).key
             recent_count == Head(recent_patterns).count
             older_count == counter_get(older_patterns, pattern)
         IN  << [ pattern |-> pattern,
                  description |-> _get_pattern_description(pattern),
                  recent_count |-> recent_count,
                  previous_count |-> older_count,
                  change_percentage |->
                      RoundDiv((recent_count - older_count) * 10000, Max(older_count, 1)) ] >>
             \o emerging_of_all(Tail(recent_patterns), older_patterns)

\* the loop of get_emerging_threats over recent_patterns.items()
RECURSIVE emerging_of(_, _)
emerging_of(recent_patterns, older_patterns) ==
    IF recent_patterns = <<>> THEN <<>>
    ELSE LET pattern == Head(recent_patterns).key
             recent_count == Head(recent_patterns).count
             older_count == counter_get(older_patterns, pattern)
             entry == [ pattern |-> pattern,
                        description |-> _get_pattern_description(pattern),
                        recent_count |-> recent_count,
                        previous_count |-> older_count,
                        change_percentage |->
                            RoundDiv((recent_count - older_count) * 10000,
                                     Max(older_count, 1)) ]
         IN  (IF older_count = 0 \/ 2 * recent_count > 3 * older_count
              THEN <<entry>> ELSE <<>>)
             \o emerging_of(Tail(recent_patterns), older_patterns)

\* emerging.sort(key=change_percentage, reverse=True): stable
sort_by_change(emerging) ==
    LET keyed == [i \in DOMAIN emerging |->
                    [key |-> i, count |-> emerging[i].change_percentage]]
        order == sorted_by_count(keyed)
    IN  [i \in DOMAIN emerging |-> emerging[order[i].key]]

\* ScamAnalytics.get_emerging_threats
get_emerging_threats ==
    LET recent == get_statistics(RecentWindowHours)
        older == get_statistics(OlderWindowHours)
        emerging == emerging_of(top_pattern_counts(recent), top_pattern_counts(older))
    IN  FirstN(sort_by_change(emerging), EmergingLimit)

----------------------------------------------------------------------------
(* ScamAnalytics: the threat-intelligence report *)

\* the scam percentage above which the report recommends awareness campaigns:
\* 30, in hundredths of a percent
HIGH_SCAM_RATE == 3000

\* the entries of top_scam_patterns the report keeps
TOP_THREATS == 5

\* the week of the second statistics call, in hours
WEEK_HOURS == 168

\* max(stats.items(), key=lambda x: x[1])[0]: the first key with the largest count
top_brand(brand_stats) ==
    LET first == CHOOSE i \in DOMAIN brand_stats :
                    /\ \A j \in DOMAIN brand_stats : brand_stats[j].count <= brand_stats[i].count
                    /\ \A j \in 1..(i - 1) : brand_stats[j].count < brand_stats[i].count
    IN  brand_stats[first].key

\* stats.get(key, default)
get_or(stats, key, default) == IF key \in DOMAIN stats THEN stats[key] ELSE default

\* ScamAnalytics._generate_threat_recommendations: the recommendations by
\* their kind, in the order of the code
_generate_threat_recommendations(stats, emerging) ==
    (IF stats.detection_summary.scam_percentage > HIGH_SCAM_RATE
     THEN << [kind |-> "high_scam_activity"] >> ELSE <<>>)
    \o (IF emerging # <<>>
        THEN << [kind |-> "new_threat_pattern",
                 about |-> _get_pattern_description(emerging[1].pattern)] >>
        ELSE <<>>)
    \o (IF get_or(stats, "brand_impersonation_stats", <<>>) # <<>>
        THEN << [kind |-> "brand_alert", about |-> top_brand(stats.brand_impersonation_stats)] >>
        ELSE <<>>)
    \o (IF {"urdu", "roman_urdu"} \cap counter_keys(get_or(stats, "language_distribution", <<>>)) # {}
        THEN << [kind |-> "multi_language"] >> ELSE <<>>)

\* ScamAnalytics.get_threat_intelligence.  The executive summary indexes
\* stats_24h['average_risk_scores'], a key the no-data structure does not have:
\* with no record in the last 24 hours the call ends in KeyError.
get_threat_intelligence ==
    LET stats_24h == get_statistics(RecentWindowHours)
        stats_7d == get_statistics(WEEK_HOURS)
        emerging == get_emerging_threats
    IN  IF "average_risk_scores" \notin DOMAIN stats_24h
        THEN [status |-> "KeyError", key |-> "average_risk_scores"]
        ELSE [ status |-> "returned",
               report |->
                 [ executive_summary |->
                     [ total_scams_24h |-> stats_24h.detection_summary.scam_count,
                       total_scams_7d |-> stats_7d.detection_summary.scam_count,
                       scam_rate_24h |-> stats_24h.detection_summary.scam_percentage,
                       average_risk_score |-> stats_24h.average_risk_scores.overall ],
                   top_threats |-> FirstN(get_or(stats_24h, "top_scam_patterns", <<>>), TOP_THREATS),
                   emerging_threats |-> emerging,
                   most_impersonated_brands |-> get_or(stats_24h, "brand_impersonation_stats", <<>>),
                   language_breakdown |-> get_or(stats_24h, "language_distribution", <<>>),
                   trend |-> IF "trend_analysis" \in DOMAIN stats_24h
                             THEN stats_24h.trend_analysis.trend ELSE "unknown",
                   recommendations |-> _generate_threat_recommendations(stats_24h, emerging) ] ]

----------------------------------------------------------------------------
(* The web layer (main.py): what the /analyze and /analytics endpoints check
   before they call the engine *)

\* the range of hours the /analytics endpoint accepts
HOURS_MIN == 1
HOURS_MAX == 168

\* the status codes of the endpoints
HTTP_OK == 200
HTTP_BAD_REQUEST == 400
HTTP_UNAVAILABLE == 503

\* the emptiness test of /analyze taken to fail for every message
is_empty_never(message) == FALSE

\* not request.message or len(request.message.strip()) == 0
is_empty(message) == \A i \in DOMAIN message : message[i] = " "

\* len(request.message) > settings.MAX_MESSAGE_LENGTH
is_too_long(message) == Len(message) > settings.MAX_MESSAGE_LENGTH

\* hours < 1 or hours > 168
is_out_of_range(hours) == hours < HOURS_MIN \/ hours > HOURS_MAX

\* raise HTTPException(status_code=..., detail=...)
HTTPException(status_code, detail) == [status |-> status_code, detail |-> detail]

----------------------------------------------------------------------------
(* Inputs of the aggregator *)

\* Analysis results as analyze_message builds them (main.py:169-185), with the
\* keys log_detection reads; one per classification.
SampleResults ==
    { [ classification |-> "SCAM", risk_score |-> 8150, ml_score |-> 90, rule_score |-> 60,
        highlighted_keywords |-> {<<"o", "t", "p">>, <<"n", "o", "w">>},
        triggered_rules |-> <<"urgency_language", "sensitive_data_request">>,
        language_info |-> [detected |-> "english", confidence |-> 95] ],
      [ classification |-> "SUSPICIOUS", risk_score |-> 5075, ml_score |-> 70, rule_score |-> 15,
        highlighted_keywords |-> {<<"h", "b", "l">>},
        triggered_rules |-> <<"brand_impersonation_pakistan_financial">>,
        language_info |-> [detected |-> "english", confidence |-> 95] ],
      [ classification |-> "SAFE", risk_score |-> 1525, ml_score |-> 10, rule_score |-> 25,
        highlighted_keywords |-> {<<"s", "h", "o", "r", "t", "e", "n", "e", "d", "_", "u", "r", "l">>},
        triggered_rules |-> <<"shortened_url">>,
        language_info |-> [detected |-> "english", confidence |-> 95] ] }

\* Two results for the emerging-threat comparison: one that triggers ten of
\* the patterns _get_pattern_description lists, as many as a top-patterns list
\* holds, and one that triggers an eleventh
EmergingResults ==
    { [ classification |-> "SCAM", risk_score |-> 9000, ml_score |-> 90, rule_score |-> 90,
        highlighted_keywords |-> {<<"o", "t", "p">>},
        triggered_rules |->
            <<"urgency_language", "suspicious_actions", "sensitive_data_request",
              "threat_language", "financial_manipulation", "shortened_url",
              "suspicious_domain_extension", "suspicious_domain_pattern",
              "brand_impersonation_global_financial", "brand_impersonation_global_tech">>,
        language_info |-> [detected |-> "english", confidence |-> 95] ],
      [ classification |-> "SUSPICIOUS", risk_score |-> 5075, ml_score |-> 70, rule_score |-> 15,
        highlighted_keywords |-> {<<"h", "b", "l">>},
        triggered_rules |-> <<"brand_impersonation_pakistan_financial">>,
        language_info |-> [detected |-> "english", confidence |-> 95] ] }

\* Results for the top-patterns list: those two, and the SAFE one of the
\* samples, whose rule the ten-rule result triggers too
PatternResults == EmergingResults \cup { r \in SampleResults : r.classification = "SAFE" }

\* hours of the statistics calls on them
PatternHours == {RecentWindowHours, OlderWindowHours}

\* Raw messages handed to log_detection with them
SampleMessages == { <<"h", "i">> }

\* hours of a statistics call: the windows the code uses, the API's range ends,
\* and values outside it
HoursInputs == {-1, 0, 1, 24, 48, 168}

\* A vocabulary for the messages of the rule engine: rule words, a word in
\* capitals, words that hold a rule word inside a longer one, a neutral word
Vocabulary ==
    { <<"u", "r", "g", "e", "n", "t">>, <<"n", "o", "w">>, <<"s", "n", "o", "w">>,
      <<"O", "T", "P">>, <<"p", "i", "n">>,
      <<"e", "a", "s", "y", "p", "a", "i", "s", "a">>, <<"j", "a", "z", "z", "c", "a", "s", "h">>,
      <<"p", "a", "y", "p", "a", "l">>, <<"b", "i", "t", ".", "l", "y">>,
      <<"t", "i", "n", "y", "u", "r", "l", "s">>, <<"h", "e", "l", "l", "o">> }

\* Words per generated message
MaxWords == 2

\* the sequences of 1..n words of the vocabulary
WordLists(n) == UNION { [1..k -> Vocabulary] : k \in 1..n }

\* "urgent your easypaisa account will be suspended verify otp now"
ExampleMessage ==
    join(<< <<"u", "r", "g", "e", "n", "t">>, <<"y", "o", "u", "r">>,
            <<"e", "a", "s", "y", "p", "a", "i", "s", "a">>,
            <<"a", "c", "c", "o", "u", "n", "t">>, <<"w", "i", "l", "l">>, <<"b", "e">>,
            <<"s", "u", "s", "p", "e", "n", "d", "e", "d">>, <<"v", "e", "r", "i", "f", "y">>,
            <<"o", "t", "p">>, <<"n", "o", "w">> >>)

\* first alternative of every pattern of a list, as words
first_literals(patterns) == [i \in DOMAIN patterns |-> patterns[i].alts[1]]

\* a message in which every pattern of every rule table matches
AllRulesMessage ==
    join(first_literals(BRANDS[1].patterns) \o first_literals(BRANDS[2].patterns)
         \o first_literals(BRANDS[3].patterns) \o first_literals(BRANDS[4].patterns)
         \o first_literals(URGENCY_KEYWORDS) \o first_literals(SENSITIVE_DATA)
         \o first_literals(<<SHORTENED_URL>>))

\* messages given to the rule engine
RuleMessages ==
    { join(ws) : ws \in WordLists(MaxWords) } \cup {ExampleMessage, AllRulesMessage}

\* messages and language hints given to the pipeline
EngineMessages ==
    { ExampleMessage,
      join(<< <<"h", "e", "l", "l", "o">> >>),
      join(<< <<"a", "a", "p">>, <<"k", "a">>, <<"O", "T", "P">>, <<"a", "b", "h", "i">> >>) }

LanguageHints == {"auto", "en"}

\* orders in which a set of rule identifiers may be listed
HashOrders ==
    { RuleIds,
      <<"shortened_url", "sensitive_data_request", "urgency_language",
        "brand_impersonation_government", "brand_impersonation_global_tech",
        "brand_impersonation_global_financial", "brand_impersonation_pakistan_financial">> }

\* ML and rule scores given to the score combiner, in hundredths
ScoreInputs == {0, 10, 20, 30, 40, 45, 50, 60, 70, 75, 80, 90, 100}

\* settings of the score combiner: the defaults, weights that sum to more than
\* 1, and other ascending thresholds
ScoreSettings ==
    { DefaultSettings,
      [DefaultSettings EXCEPT !.ML_WEIGHT = 100, !.RULE_WEIGHT = 100],
      [DefaultSettings EXCEPT !.SUSPICIOUS_THRESHOLD = 30, !.SCAM_THRESHOLD = 60] }

\* settings of the pipeline: the defaults, ML off, ML and analytics off
EngineSettings ==
    { DefaultSettings,
      [DefaultSettings EXCEPT !.ENABLE_ML = FALSE],
      [DefaultSettings EXCEPT !.ENABLE_ML = FALSE, !.ENABLE_ANALYTICS = FALSE] }

\* pieces of the messages given to the anonymizer: a phone number, card
\* numbers written in one run and in groups, a CNIC, an address, a link, and
\* what may stand between them
AnonymizePieces ==
    { <<"1", "2", "3", "4", "5", "6", "7", "8", "9", "0">>,
      <<"1", "2", "3", "4", "5", "6", "7", "8", "1", "2", "3", "4", "5", "6", "7", "8">>,
      <<"1", "2", "3", "4", " ", "5", "6", "7", "8", " ", "1", "2", "3", "4", " ",
        "5", "6", "7", "8">>,
      <<"1", "2", "3", "4", "-", "5", "6", "7", "8", "-", "1", "2", "3", "4", "-",
        "5", "6", "7", "8">>,
      <<"1", "2", "3", "4", "5", "-", "1", "2", "3", "4", "5", "6", "7", "-", "1">>,
      <<"a", "@", "b", ".", "c">>,
      <<"h", "t", "t", "p", ":", "/", "/", "x">>,
      <<"1", "2", "3", "4">>, <<"x">>, <<" ">>, <<".">>, <<"-">> }

\* Pieces per message given to the anonymizer
MaxPieces == 2

\* ''.join(pieces)
RECURSIVE concat(_)
concat(pieces) == IF pieces = <<>> THEN <<>> ELSE Head(pieces) \o concat(Tail(pieces))

\* messages given to the anonymizer
AnonymizeMessages ==
    { concat(ps) : ps \in UNION { [1..k -> AnonymizePieces] : k \in 1..MaxPieces } }

\* settings of the served application: the defaults, ML off, ML and analytics
\* off, and ML off with a short maximum length
ApiSettings ==
    { DefaultSettings,
      [DefaultSettings EXCEPT !.ENABLE_ML = FALSE],
      [DefaultSettings EXCEPT !.ENABLE_ML = FALSE, !.ENABLE_ANALYTICS = FALSE],
      [DefaultSettings EXCEPT !.ENABLE_ML = FALSE, !.MAX_MESSAGE_LENGTH = 12] }

\* a message one character longer than the default maximum
LongMessage == [i \in 1..(MAX_MESSAGE_LENGTH + 1) |-> "a"]

\* messages of /analyze requests: empty, blank, a word, one of exactly 12
\* characters, one of 15, and the long one
ApiMessages ==
    { <<>>, <<" ">>,
      join(<< <<"h", "e", "l", "l", "o">> >>),
      join(<< <<"j", "a", "z", "z", "c", "a", "s", "h">>, <<"p", "i", "n">> >>),
      join(<< <<"a", "a", "p">>, <<"k", "a">>, <<"O", "T", "P">>, <<"a", "b", "h", "i">> >>),
      LongMessage }

\* hours of /analytics requests: those of the statistics calls, and one past
\* the range
ApiHours == HoursInputs \cup {HOURS_MAX + 1}

\* The callers that may be inside ScamAnalytics at once: two of log_detection;
\* one caller of get_statistics is kept in threads.reader
Threads == {"t1", "t2"}

\* Analysis results of the concurrent ingests: two that differ in classification
ThreadResults == { r \in SampleResults : r.classification \in {"SCAM", "SAFE"} }

\* hours of a concurrent statistics call
ThreadHours == {0, 24}

\* Ingests of a run with concurrent callers: two past the capacity, so that a
\* truncation can be overtaken by an append and by another truncation
ThreadIngests == LogCapacity + 2

\* URLs given to the classifier: an ordinary one, one with a suspicious
\* top-level domain, a shortened one, one with an IP address, and one whose
\* digit runs are too long for an address but hold one inside
Urls ==
    { <<"h", "t", "t", "p", ":", "/", "/", "e", "x", "a", "m", "p", "l", "e", ".", "c", "o", "m">>,
      <<"h", "t", "t", "p", "s", ":", "/", "/", "w", "i", "n", ".", "x", "y", "z", "/", "a">>,
      <<"h", "t", "t", "p", ":", "/", "/", "b", "i", "t", ".", "l", "y", "/", "x">>,
      <<"h", "t", "t", "p", ":", "/", "/", "1", "0", ".", "0", ".", "0", ".", "1", "/", "p">>,
      <<"h", "t", "t", "p", ":", "/", "/", "1", "2", "3", "4", ".", "5", ".", "6", ".", "7", "7", "7", "7">> }

\* URLs per message given to the classifier
MaxUrls == 2

\* the URL lists of a message
UrlLists == UNION { [1..k -> Urls] : k \in 0..MaxUrls }

\* word and template counts of a message's text, as the feature extractors
\* count them
FeatureCounts == {0, 1, 3}

\* the linguistic features of a text with the given urgency, emotion and
\* action-verb counts; the other eleven do not enter the feature-derived score
linguistic_features(urgency, emotion, action) ==
    <<0, 0, 0, 0, 0, 2, 500, 100, urgency, emotion, action, 0, 0, 0>>

\* the behavioural features of a plain text
BehaviourFeatures == <<0, 0, 0, 0>>

\* probabilities the text model gives, in hundredths
TfidfInputs == {0, 50, 100}

\* Words of the messages given to the language processor: dictionary words,
\* words that hold a dictionary word inside, a word in capitals, and words in
\* Urdu script of three and of six characters
LanguageVocabulary ==
    { <<"a", "a", "p">>,
      <<"k", "a">>,
      <<"a", "p", "k", "a">>,
      <<"h", "a", "i">>,
      <<"c", "h", "a", "i", "r">>,
      <<"k", "a", "y", "a", "k">>,
      <<"H", "e", "l", "l", "o">>,
      <<"U+0627", "U+0628", "U+067E">>,
      <<"U+0627", "U+0628", "U+067E", "U+0627", "U+0628", "U+067E">> }

\* messages given to the language processor
LanguageMessages ==
    { join(ws) : ws \in UNION { [1..k -> LanguageVocabulary] : k \in 1..MaxWords } }

\* Messages whose records are compared: two that differ only in the digits of
\* a phone number, one with a link and no keyword of a rule, one with a keyword
\* and no link, a plain one, and one that triggers rules enough for a rule
\* score of 1
RecordMessages ==
    { <<"u", "r", "g", "e", "n", "t", " ", "n", "o", "w", " ", "o", "t", "p", " ", "h", "b", "l", " ", "p", "a", "y", "p", "a", "l", " ", "b", "i", "t", ".", "l", "y">>,
      <<"c", "a", "l", "l", " ", "0", "3", "0", "0", "1", "2", "3", "4", "5", "6", "7">>,
      <<"c", "a", "l", "l", " ", "0", "3", "0", "0", "7", "6", "5", "4", "3", "2", "1">>,
      <<"s", "e", "e", " ", "h", "t", "t", "p", ":", "/", "/", "x", ".", "c", "o">>,
      <<"u", "r", "g", "e", "n", "t">>,
      <<"h", "e", "l", "l", "o">> }

----------------------------------------------------------------------------
(* The state machines *)

NoResponse == [op |-> "none"]

\* a caller outside log_detection
Idle == [pc |-> "idle", index |-> 0, kept |-> <<>>]

\* no caller inside ScamAnalytics, no ingest completed
NoThreads ==
    [ workers |-> [t \in Threads |-> Idle],
      completed |-> {},
      reader |-> [pc |-> "idle", hours |-> 0, completed_before |-> {}] ]

\* ScamAnalytics.__init__, and no call made yet
InitAnalytics ==
    /\ detections = <<>>
    /\ scam_patterns = <<>>
    /\ brand_mentions = <<>>
    /\ language_distribution = <<>>
    /\ ingested = <<>>
    /\ clock = 0
    /\ response = NoResponse
    /\ scored_before = NoResponse
    /\ analysed = <<>>
    /\ threads = NoThreads

\* the process started with the settings cfg and the set order
InitProcess(cfg, order) ==
    /\ settings = cfg
    /\ hash_order = order
    /\ engine = _initialize

\* a call of ScamAnalytics.log_detection
LogDetection(analysis_result, message) ==
    /\ Len(ingested) < MaxIngests
    /\ log_detection(analysis_result, message)
    /\ response' = [op |-> "log_detection"]
    /\ UNCHANGED <<clock, startup, scored_before, analysed, threads>>

\* time passes
Tick(minutes) ==
    /\ clock + minutes <= MaxClock
    /\ minutes = 30 => clock % timedelta(24) = 0
    /\ clock' = clock + minutes
    /\ response' = NoResponse
    /\ UNCHANGED <<analytics, ingested, startup, scored_before, analysed, threads>>

\* a call of ScamAnalytics.get_statistics
GetStatistics(hours) ==
    /\ response' = [op |-> "get_statistics", hours |-> hours, stats |-> get_statistics(hours)]
    /\ UNCHANGED <<analytics, ingested, clock, startup, scored_before, analysed, threads>>

\* a call of ScamAnalytics.get_emerging_threats
GetEmergingThreats ==
    /\ response' = [op |-> "get_emerging_threats", emerging |-> get_emerging_threats]
    /\ UNCHANGED <<analytics, ingested, clock, startup, scored_before, analysed, threads>>

\* the score combination of analyze_message on given scores; two calls a run
Combine(ml_score, rule_score) ==
    /\ scored_before = NoResponse
    /\ response' = [op |-> "combine", scored |-> combine(ml_score, rule_score)]
    /\ scored_before' = response
    /\ UNCHANGED <<analytics, ingested, clock, startup, analysed, threads>>

\* a call of RuleDetector.analyze; one call a run
Analyze(message) ==
    /\ response = NoResponse
    /\ response' = [op |-> "analyze", message |-> message,
                    result |-> analyze(message, hash_order)]
    /\ UNCHANGED <<analytics, ingested, clock, startup, scored_before, analysed, threads>>

\* a call of DetectionEngine.analyze_message, with its step 8, the ingestion
AnalyzeMessage(message, language) ==
    /\ engine.status = "ready"
    /\ Len(analysed) < MaxIngests
    /\ Len(ingested) < MaxIngests
    /\ \E result \in {analyze_message(message, language)} :
        /\ IF engine.analytics
           THEN log_detection(result, message)
           ELSE UNCHANGED <<analytics, ingested>>
        /\ response' = [op |-> "analyze_message", message |-> message,
                        language |-> language, result |-> result]
        /\ analysed' = Append(analysed, [message |-> message, language |-> language,
                                         result |-> result])
        /\ UNCHANGED <<clock, startup, scored_before, threads>>

\* a request to POST /analyze, answered by a process that has started: the
\* two checks of the message, then engine.analyze_message
PostAnalyze(message, language) ==
    /\ engine.status = "ready"
    /\ IF is_empty(message) \/ is_too_long(message)
       THEN /\ response' =
                   [op |-> "post_analyze", message |-> message, language |-> language]
                   @@ (IF is_empty(message)
                       THEN HTTPException(HTTP_BAD_REQUEST, "Message cannot be empty")
                       ELSE HTTPException(HTTP_BAD_REQUEST, "Message too long"))
            /\ UNCHANGED <<analytics, ingested, analysed>>
       ELSE /\ Len(analysed) < MaxIngests
            /\ Len(ingested) < MaxIngests
            /\ \E result \in {analyze_message(message, language)} :
                /\ IF engine.analytics
                   THEN log_detection(result, message)
                   ELSE UNCHANGED <<analytics, ingested>>
                /\ response' = [op |-> "post_analyze", message |-> message,
                                language |-> language, status |-> HTTP_OK,
                                result |-> result]
                /\ analysed' = Append(analysed, [message |-> message, language |-> language,
                                                 result |-> result])
    /\ UNCHANGED <<clock, startup, scored_before, threads>>

\* a request to GET /analytics, answered by a process that has started: the
\* feature flag, then the range of hours, then get_statistics
GetAnalytics(hours) ==
    /\ engine.status = "ready"
    /\ response' =
          [op |-> "get_analytics", hours |-> hours]
          @@ (IF ~settings.ENABLE_ANALYTICS
              THEN HTTPException(HTTP_UNAVAILABLE, "Analytics not enabled")
              ELSE IF is_out_of_range(hours)
              THEN HTTPException(HTTP_BAD_REQUEST, "Hours must be between 1 and 168")
              ELSE [status |-> HTTP_OK, stats |-> get_statistics(hours)])
    /\ UNCHANGED <<analytics, ingested, clock, startup, scored_before, analysed, threads>>

\* a call of ScamAnalytics._anonymize_message; one call a run
Anonymize(message) ==
    /\ response = NoResponse
    /\ response' = [op |-> "_anonymize_message", message |-> message,
                    result |-> _anonymize_message(message)]
    /\ UNCHANGED <<analytics, ingested, clock, startup, scored_before, analysed, threads>>

\* The aggregator
Init == InitAnalytics /\ InitProcess(DefaultSettings, RuleIds)

Next ==
    \/ \E r \in SampleResults, m \in SampleMessages : LogDetection(r, m)
    \/ \E minutes \in ClockSteps : Tick(minutes)
    \/ \E hours \in HoursInputs : GetStatistics(hours)
    \/ GetEmergingThreats

Spec == Init /\ [][Next]_vars

(* log_detection and get_statistics line by line, for callers that run at the
   same time.  The class takes no lock (tracker.py:16-17, 43-51), so between
   any two of these steps another caller may take a step of its own. *)

\* the state of `threads` after caller t moved to `worker`
at(t, worker) == [threads EXCEPT !.workers[t] = worker]

\* the state of `threads` after caller t returned from log_detection
returned(t) ==
    [threads EXCEPT !.workers[t] = Idle,
                    !.completed = @ \cup {threads.workers[t].index}]

\* self.detections.append(detection_record), tracker.py:44
ThreadAppend(t, analysis_result, message) ==
    /\ threads.workers[t].pc = "idle"
    /\ Len(ingested) < ThreadIngests
    /\ \E record \in {detection_record(analysis_result, message)} :
          /\ detections' = Append(detections, record)
          /\ ingested' = Append(ingested, record)
    /\ threads' = at(t, [pc |-> "appended", index |-> Len(ingested) + 1, kept |-> <<>>])
    /\ response' = NoResponse
    /\ UNCHANGED <<scam_patterns, brand_mentions, language_distribution,
                   clock, startup, scored_before, analysed>>

\* self._update_counters(detection_record, analysis_result), tracker.py:47
ThreadCount(t) ==
    /\ threads.workers[t].pc = "appended"
    /\ _update_counters(ingested[threads.workers[t].index])
    /\ threads' = at(t, [threads.workers[t] EXCEPT !.pc = "counted"])
    /\ response' = NoResponse
    /\ UNCHANGED <<detections, ingested, clock, startup, scored_before, analysed>>

\* if len(self.detections) > 10000, and the slice self.detections[-10000:] of
\* the list as it is now, tracker.py:50-51; without truncation the call returns
ThreadSlice(t) ==
    /\ threads.workers[t].pc = "counted"
    /\ threads' = IF Len(detections) > LogCapacity
                  THEN at(t, [threads.workers[t] EXCEPT
                                 !.pc = "sliced", !.kept = LastN(detections, LogCapacity)])
                  ELSE returned(t)
    /\ response' = NoResponse
    /\ UNCHANGED <<analytics, ingested, clock, startup, scored_before, analysed>>

\* the assignment self.detections = <the slice>, tracker.py:51, and the return
ThreadStore(t) ==
    /\ threads.workers[t].pc = "sliced"
    /\ detections' = threads.workers[t].kept
    /\ threads' = returned(t)
    /\ response' = NoResponse
    /\ UNCHANGED <<scam_patterns, brand_mentions, language_distribution,
                   ingested, clock, startup, scored_before, analysed>>

\* a caller enters get_statistics, tracker.py:90-99
ReaderBegin(hours) ==
    /\ threads.reader.pc = "idle"
    /\ threads' = [threads EXCEPT !.reader = [pc |-> "started", hours |-> hours,
                                              completed_before |-> threads.completed]]
    /\ response' = NoResponse
    /\ UNCHANGED <<analytics, ingested, clock, startup, scored_before, analysed>>

\* the caller reads self.detections and builds the statistics, tracker.py:101-135
ReaderRead ==
    /\ threads.reader.pc = "started"
    /\ response' = [ op |-> "get_statistics", hours |-> threads.reader.hours,
                     stats |-> get_statistics(threads.reader.hours),
                     completed_before |-> threads.reader.completed_before,
                     ingests |-> Len(ingested) ]
    /\ threads' = [threads EXCEPT !.reader.pc = "idle"]
    /\ UNCHANGED <<analytics, ingested, clock, startup, scored_before, analysed>>

\* The score combiner on every pair of scores
InitScore == InitAnalytics /\ \E cfg \in ScoreSettings : InitProcess(cfg, RuleIds)

NextScore == \E ml_score \in ScoreInputs, rule_score \in ScoreInputs : Combine(ml_score, rule_score)

SpecScore == InitScore /\ [][NextScore]_vars

\* The rule engine on every message
InitRules == InitAnalytics /\ \E order \in HashOrders : InitProcess(DefaultSettings, order)

NextRules == \E message \in RuleMessages : Analyze(message)

SpecRules == InitRules /\ [][NextRules]_vars

\* The pipeline, feeding the aggregator
InitEngine ==
    InitAnalytics /\ \E cfg \in EngineSettings, order \in HashOrders : InitProcess(cfg, order)

NextEngine ==
    \E message \in EngineMessages, language \in LanguageHints :
        AnalyzeMessage(message, language)

SpecEngine == InitEngine /\ [][NextEngine]_vars

\* The aggregator and its emerging-threat report, with more patterns than a
\* top-patterns list holds
InitEmerging == InitAnalytics /\ InitProcess(DefaultSettings, RuleIds)

NextEmerging ==
    \/ \E r \in EmergingResults, m \in SampleMessages : LogDetection(r, m)
    \/ \E minutes \in ClockSteps : Tick(minutes)
    \/ GetEmergingThreats

SpecEmerging == InitEmerging /\ [][NextEmerging]_vars

\* The served application
InitApi == InitAnalytics /\ \E cfg \in ApiSettings : InitProcess(cfg, RuleIds)

NextApi ==
    \/ \E message \in ApiMessages : PostAnalyze(message, "auto")
    \/ \E hours \in ApiHours : GetAnalytics(hours)

SpecApi == InitApi /\ [][NextApi]_vars

\* The anonymizer on every message
InitAnonymize == InitAnalytics /\ InitProcess(DefaultSettings, RuleIds)

NextAnonymize == \E message \in AnonymizeMessages : Anonymize(message)

SpecAnonymize == InitAnonymize /\ [][NextAnonymize]_vars

----------------------------------------------------------------------------
(* Claims about the aggregator *)

\* age of a stored record, in minutes
AgeOf(d) == clock - (d.timestamp.hour * 60 + d.timestamp.minute)

\* positions of the log whose record is younger than `hours`
InWindow(hours) == { i \in DOMAIN detections : AgeOf(detections[i]) < hours * 60 }

\* those of them with a classification
InWindowWith(hours, label) ==
    { i \in InWindow(hours) : detections[i].classification = <<label>> }

\* C1: after n ingests into an empty aggregator the log has min(n, capacity)
\* records, and they are the last min(n, capacity) records ingested, in
\* ingestion order.
C1_LogHoldsMostRecent ==
    LET n == Len(ingested)
        k == IF n < LogCapacity THEN n ELSE LogCapacity
    IN  /\ Len(detections) = k
        /\ \A i \in 1..k : detections[i] = ingested[n - k + i]

\* one ingest past the capacity: the first record is gone, the last is present
C1_Witness ==
    /\ Len(ingested) = LogCapacity + 1
    /\ \A i \in DOMAIN detections : detections[i] # ingested[1]
    /\ detections[Len(detections)] = ingested[LogCapacity + 1]

\* C2: on a non-empty window get_statistics(hours) reports as total the
\* number of log records younger than `hours`, and as scam, suspicious and
\* safe counts the number of those with each classification; the three
\* counts sum to the total.
C2_CountsMatchWindow ==
    (response.op = "get_statistics" /\ InWindow(response.hours) # {}) =>
        LET summary == response.stats.detection_summary
        IN  /\ response.stats.total_messages_analyzed = Cardinality(InWindow(response.hours))
            /\ summary.scam_count = Cardinality(InWindowWith(response.hours, "SCAM"))
            /\ summary.suspicious_count =
                  Cardinality(InWindowWith(response.hours, "SUSPICIOUS"))
            /\ summary.safe_count = Cardinality(InWindowWith(response.hours, "SAFE"))
            /\ summary.scam_count + summary.suspicious_count + summary.safe_count
                  = response.stats.total_messages_analyzed

\* a window that holds some of the log's records and leaves an older one out
C2_Witness ==
    /\ response.op = "get_statistics"
    /\ InWindow(response.hours) # {}
    /\ InWindow(response.hours) # DOMAIN detections
    /\ InWindowWith(response.hours, "SCAM") # {}
    /\ response.stats.detection_summary.scam_count = 1

BucketsIn(hours) == { detections[i].timestamp.hour : i \in InWindow(hours) }

\* the first half of the sorted buckets: the len // 2 earliest
FirstHalf(buckets) ==
    { b \in buckets : Cardinality({ c \in buckets : c < b }) < Cardinality(buckets) \div 2 }

\* the SCAM records of the window in the given buckets
ScamsIn(hours, buckets) ==
    Cardinality({ i \in InWindowWith(hours, "SCAM") : detections[i].timestamp.hour \in buckets })

\* the label C17 gives the window
TrendOf(hours) ==
    LET buckets == BucketsIn(hours)
        first == ScamsIn(hours, FirstHalf(buckets))
        second == ScamsIn(hours, buckets \ FirstHalf(buckets))
    IN  IF Cardinality(buckets) < 2 THEN "insufficient_data"
        ELSE IF 10 * second > 12 * first THEN "increasing"
        ELSE IF 10 * second < 8 * first THEN "decreasing"
        ELSE "stable"

\* C17: on a non-empty window the trend is insufficient_data with fewer than
\* 2 hour buckets; otherwise increasing when the later half of the sorted
\* buckets holds more than 1.2 times the scams of the earlier half, decreasing
\* when fewer than 0.8 times, stable otherwise.
C17_TrendFollowsHalves ==
    (response.op = "get_statistics" /\ InWindow(response.hours) # {}) =>
        response.stats.trend_analysis.trend = TrendOf(response.hours)

\* two buckets, the earlier without a scam and the later with one: increasing,
\* although each half holds one record
C17_Witness ==
    /\ response.op = "get_statistics"
    /\ Cardinality(BucketsIn(response.hours)) = 2
    /\ Cardinality(InWindow(response.hours)) = 2
    /\ Cardinality(InWindowWith(response.hours, "SCAM")) = 1
    /\ response.stats.trend_analysis.trend = "increasing"

\* C3: when no log record is inside the window, get_statistics returns the
\* no-data structure: every count 0 and the no-data message, for any hours.
C3_EmptyWindowNoData ==
    (response.op = "get_statistics" /\ InWindow(response.hours) = {}) =>
        /\ response.stats.total_messages_analyzed = 0
        /\ response.stats.detection_summary.scam_count = 0
        /\ response.stats.detection_summary.suspicious_count = 0
        /\ response.stats.detection_summary.safe_count = 0
        /\ response.stats.detection_summary.scam_percentage = 0
        /\ "message" \in DOMAIN response.stats
        /\ DOMAIN response.stats =
              {"time_period_hours", "total_messages_analyzed", "detection_summary", "message"}

\* a log that has records, all of them outside a 24-hour window
C3_Witness ==
    /\ response.op = "get_statistics"
    /\ response.hours = 24
    /\ detections # <<>>
    /\ InWindow(24) = {}
    /\ "message" \in DOMAIN response.stats

\* records of the log, SCAM or SUSPICIOUS, with an age in [from, to) hours that
\* triggered pattern p
TriggeredIn(p, from, to) ==
    { i \in DOMAIN detections :
        /\ AgeOf(detections[i]) >= from * 60
        /\ AgeOf(detections[i]) < to * 60
        /\ detections[i].classification \in {<<"SCAM">>, <<"SUSPICIOUS">>}
        /\ \E j \in DOMAIN detections[i].triggered_rules :
              detections[i].triggered_rules[j] = p }

PatternsInLog ==
    UNION { { detections[i].triggered_rules[j] : j \in DOMAIN detections[i].triggered_rules } :
            i \in DOMAIN detections }

\* C10: a pattern triggered by detections of the last 24 hours and by none
\* between 24 and 48 hours ago is returned by get_emerging_threats with
\* previous count 0 and change percentage recent_count * 100.
C10_NewPatternIsEmerging ==
    response.op = "get_emerging_threats" =>
        \A p \in PatternsInLog :
            (TriggeredIn(p, 0, 24) # {} /\ TriggeredIn(p, 24, 48) = {}) =>
                \E i \in DOMAIN response.emerging :
                    /\ response.emerging[i].pattern = p
                    /\ response.emerging[i].previous_count = 0
                    /\ response.emerging[i].change_percentage
                          = Cardinality(TriggeredIn(p, 0, 24)) * 100 * 100

----------------------------------------------------------------------------
(* Claims about the score combiner *)

\* the scores of the call that has just returned
Scored == response.scored

\* ml_weight * ml_score + rule_weight * rule_score, in ten-thousandths
WeightedSum(scored) ==
    settings.ML_WEIGHT * scored.ml_score + settings.RULE_WEIGHT * scored.rule_score

\* SAFE < SUSPICIOUS < SCAM
Tier(classification) ==
    CASE classification = "SAFE" -> 0
      [] classification = "SUSPICIOUS" -> 1
      [] classification = "SCAM" -> 2

\* C4: for scores in [0,1] and the configured weights, final_score is
\* min(ml_weight * ml_score + rule_weight * rule_score, 1), it lies in [0,1],
\* and the reported risk_score lies in 0..100.
C4_FinalScoreIsClampedSum ==
    response.op = "combine" =>
        /\ Scored.final_score = Min(WeightedSum(Scored), 10000)
        /\ Scored.final_score \in 0..10000
        /\ Scored.risk_score \in 0..10000

\* a weighted sum above 1 came back as exactly 1
C4_Witness ==
    /\ response.op = "combine"
    /\ WeightedSum(Scored) > 10000
    /\ Scored.final_score = 10000

\* C5: the classification is SCAM exactly when final_score >= scam_threshold,
\* SUSPICIOUS exactly when suspicious_threshold <= final_score < scam_threshold,
\* SAFE exactly when final_score < suspicious_threshold, and it is one of the
\* three labels.
C5_ClassificationMatchesBands ==
    response.op = "combine" =>
        LET score == Scored.final_score
            label == Scored.classification
            scam == settings.SCAM_THRESHOLD * 100
            suspicious == settings.SUSPICIOUS_THRESHOLD * 100
        IN  /\ label \in {"SCAM", "SUSPICIOUS", "SAFE"}
            /\ label = "SCAM" <=> score >= scam
            /\ label = "SUSPICIOUS" <=> (suspicious <= score /\ score < scam)
            /\ label = "SAFE" <=> score < suspicious

\* a final score exactly on the scam threshold was classified SCAM
C5_Witness ==
    /\ response.op = "combine"
    /\ Scored.final_score = settings.SCAM_THRESHOLD * 100
    /\ Scored.classification = "SCAM"

\* the agreement of two scores, 1 - |ml_score - rule_score|, in hundredths
Agreement(scored) ==
    IF scored.ml_score >= scored.rule_score
    THEN 100 - (scored.ml_score - scored.rule_score)
    ELSE 100 - (scored.rule_score - scored.ml_score)

\* C21: for ml_score and rule_score in [0,1] the confidence is
\* min(rule_score * 1.2, 1) when ml_score is 0 and otherwise
\* min(((ml_score + rule_score) / 2) * (1 - |ml_score - rule_score|) * 1.5, 1);
\* in both cases it lies in [0,1].  Confidence is in units of 1/40000.
C21_ConfidenceFormula ==
    response.op = "combine" =>
        /\ Scored.ml_score = 0 =>
              Scored.confidence =
                  (IF 12 * Scored.rule_score >= 1000 THEN 40000 ELSE 480 * Scored.rule_score)
        /\ Scored.ml_score # 0 =>
              LET product == (Scored.ml_score + Scored.rule_score) * Agreement(Scored) * 3
              IN  Scored.confidence = (IF product >= 40000 THEN 40000 ELSE product)
        /\ Scored.confidence \in 0..40000

\* two high scores that agree: the product is above 1 and the confidence is 1;
\* before it, a call with an ML score of 0 whose rule score times 1.2 is below 1
C21_Witness ==
    /\ scored_before.op = "combine"
    /\ scored_before.scored.ml_score = 0
    /\ scored_before.scored.confidence \in 1..39999
    /\ response.op = "combine"
    /\ Scored.ml_score # 0
    /\ (Scored.ml_score + Scored.rule_score) * Agreement(Scored) * 3 > 40000
    /\ Scored.confidence = 40000

\* C6: of two combinations under the same settings, the one with the higher
\* final_score never has the lower tier in the order SAFE < SUSPICIOUS < SCAM.
C6_ClassificationMonotonic ==
    (scored_before.op = "combine" /\ response.op = "combine") =>
        (scored_before.scored.final_score <= Scored.final_score
            => Tier(scored_before.scored.classification) <= Tier(Scored.classification))

\* a SAFE combination was followed by a higher-scoring SCAM one
C6_Witness ==
    /\ scored_before.op = "combine"
    /\ response.op = "combine"
    /\ scored_before.scored.final_score < Scored.final_score
    /\ scored_before.scored.classification = "SAFE"
    /\ Scored.classification = "SCAM"

----------------------------------------------------------------------------
(* Claims about the rule engine *)

\* the identifiers of a result's triggered_rules, as a set
RuleSet(result) == { result.triggered_rules[i] : i \in DOMAIN result.triggered_rules }

\* the three rules the example message is said to trigger
ExampleRules ==
    {"brand_impersonation_pakistan_financial", "urgency_language", "sensitive_data_request"}

\* C8: the score the rule engine returns lies in [0,1] for every message, also
\* when every brand, urgency and sensitive-data pattern and the shortened-URL
\* pattern match at once.
C8_RuleScoreInUnitInterval ==
    response.op = "analyze" => response.result.score \in 0..100

\* the message matching every pattern triggered every rule and scored exactly 1
C8_Witness ==
    /\ response.op = "analyze"
    /\ response.message = AllRulesMessage
    /\ RuleSet(response.result) = { RuleIds[i] : i \in DOMAIN RuleIds }
    /\ response.result.score = 100

\* C9 as stated: the example message triggers the pakistan-financial brand
\* rule, the urgency rule and the sensitive-data rule, and its rule_score is at
\* least 0.65.
C9_ExampleScoreAtLeast65 ==
    (response.op = "analyze" /\ response.message = ExampleMessage) =>
        /\ ExampleRules \subseteq RuleSet(response.result)
        /\ response.result.score >= 65

\* C9 as the code has it: the example message triggers exactly those three
\* rules and its rule_score is 0.60, the sum of 0.15 for the brand, 0.20 for
\* two urgency matches and 0.25 for the sensitive-data request.
C9_ExampleScoreIs60 ==
    (response.op = "analyze" /\ response.message = ExampleMessage) =>
        /\ RuleSet(response.result) = ExampleRules
        /\ response.result.score = BRAND_SCORE + 2 * URGENCY_STEP + SENSITIVE_SCORE
        /\ response.result.score = 60

\* the example message has been analysed and matched the urgency keywords
C9_Witness ==
    /\ response.op = "analyze"
    /\ response.message = ExampleMessage
    /\ "urgency_language" \in RuleSet(response.result)

\* the brand rules among a result's triggered rules: the categories matched
BrandsMatched(result) == RuleSet(result) \cap BrandRules

\* C18: the brands add 0.15 for every category with a matching pattern, however
\* many of its patterns match; checked where only brand rules are triggered,
\* so that the score is the brand contribution alone.
C18_BrandScorePerCategory ==
    (response.op = "analyze" /\ RuleSet(response.result) = BrandsMatched(response.result)) =>
        response.result.score = BRAND_SCORE * Cardinality(BrandsMatched(response.result))

\* the patterns behind a rule identifier
PatternsOf(rule) ==
    CASE rule = "urgency_language" -> URGENCY_KEYWORDS
      [] rule = "sensitive_data_request" -> SENSITIVE_DATA
      [] rule = "shortened_url" -> <<SHORTENED_URL>>
      [] OTHER -> BRANDS[CHOOSE k \in DOMAIN BRANDS : brand_rule(BRANDS[k].category) = rule].patterns

\* whether a pattern of the rule occurs in the text as a whole word, in any case
WholeWordIn(rule, text) ==
    \E p \in DOMAIN PatternsOf(rule) : \E a \in DOMAIN PatternsOf(rule)[p].alts :
        \E i \in DOMAIN text : literal_at(lower(text), PatternsOf(rule)[p].alts[a], i, TRUE)

\* C19: a rule is triggered only if one of its patterns occurs in the message
\* between word boundaries, in any case, never inside a longer word.
C19_RulesMatchWholeWords ==
    response.op = "analyze" =>
        \A rule \in RuleSet(response.result) : WholeWordIn(rule, response.message)

----------------------------------------------------------------------------
(* Claims about the pipeline *)

----------------------------------------------------------------------------
(* Claims about the anonymizer *)

\* no redaction pattern matches anywhere inside a placeholder
PlaceholdersUnmatched ==
    \A inserted \in DOMAIN STAGES, stage \in DOMAIN STAGES :
        \A i \in DOMAIN placeholder(STAGES[inserted]) :
            stage_match(STAGES[stage], placeholder(STAGES[inserted]), i) = 0

\* C11: anonymizing an anonymized message gives it back unchanged, for every
\* message, and no placeholder is matched by a redaction pattern.
C11_AnonymizeIdempotent ==
    response.op = "_anonymize_message" =>
        /\ _anonymize_message(response.result) = response.result
        /\ PlaceholdersUnmatched

\* C20: wherever the raw message holds a card number, 16 digits in one run or
\* in groups of 4 between word boundaries, the phone stage does not take it
\* and the message holds the card placeholder once the card stage has run.
C20_CardBeforeDigitRun ==
    response.op = "_anonymize_message" =>
        \A i \in DOMAIN response.message :
            card_match(response.message, i) > 0 =>
                /\ phone_match(response.message, i) = 0
                /\ contains(after_stages(response.message, 4), placeholder("card"))

----------------------------------------------------------------------------
(* Claims about the web layer *)

\* a request whose input the interface rules out: an /analyze message that is
\* empty, blank or longer than the maximum, /analytics hours outside 1..168
InvalidRequest(r) ==
    \/ /\ r.op = "post_analyze"
       /\ \/ \A i \in DOMAIN r.message : r.message[i] = " "
          \/ Len(r.message) > settings.MAX_MESSAGE_LENGTH
    \/ /\ r.op = "get_analytics"
       /\ r.hours \notin 1..168

\* C12 as stated: every request with invalid input ends in a validation
\* rejection (400), and the step leaves the detection log as it was.
C12_InvalidInputRejected ==
    [][InvalidRequest(response') =>
          (response'.status = 400 /\ detections' = detections)]_vars

\* C12 as the code has it: an invalid /analyze request ends in 400; invalid
\* hours end in 400 when analytics is enabled and in 503, like every
\* /analytics request, when it is disabled; the log is left as it was.
C12_InvalidInputRefused ==
    [][InvalidRequest(response') =>
          /\ response'.status =
                IF response'.op = "get_analytics" /\ ~settings.ENABLE_ANALYTICS
                THEN 503 ELSE 400
          /\ detections' = detections
          /\ ingested' = ingested]_vars

\* with records in the log, a message longer than the maximum was rejected
C12_Witness ==
    /\ response.op = "post_analyze"
    /\ Len(response.message) > settings.MAX_MESSAGE_LENGTH
    /\ response.status = 400
    /\ detections # <<>>

\* a message the interface accepts: not blank, within the maximum length
WellFormed(message) ==
    /\ \E i \in DOMAIN message : message[i] # " "
    /\ Len(message) <= settings.MAX_MESSAGE_LENGTH

\* C13: with ML enabled and with ML disabled the engine is up, every
\* well-formed message is answered with a result and no error, and with ML
\* disabled the result's ML score is 0.
C13_WellFormedNeverFails ==
    /\ engine.status = "ready"
    /\ (response.op = "post_analyze" /\ WellFormed(response.message)) =>
          /\ response.status = 200
          /\ ~settings.ENABLE_ML => response.result.ml_score = 0

\* Two callers of log_detection and one of get_statistics at the same time
InitThreads == InitAnalytics /\ InitProcess(DefaultSettings, RuleIds)

NextThreads ==
    \/ \E t \in Threads, r \in ThreadResults, m \in SampleMessages : ThreadAppend(t, r, m)
    \/ \E t \in Threads : ThreadCount(t)
    \/ \E t \in Threads : ThreadSlice(t)
    \/ \E t \in Threads : ThreadStore(t)
    \/ \E hours \in ThreadHours : ReaderBegin(hours)
    \/ ReaderRead

SpecThreads == InitThreads /\ [][NextThreads]_vars

----------------------------------------------------------------------------
(* Claims about concurrent callers *)

\* no caller is inside log_detection
Quiescent == \A t \in Threads : threads.workers[t].pc = "idle"

\* C14: under every interleaving of concurrent ingests the append and the
\* truncation exclude each other, so that once the ingests have returned no
\* record is lost: the log holds the last min(n, capacity) records ingested,
\* in ingestion order.
C14_NoRecordLost ==
    Quiescent =>
        LET n == Len(ingested)
            k == IF n < LogCapacity THEN n ELSE LogCapacity
        IN  detections = SubSeq(ingested, n - k + 1, n)

\* the ingests of a statistics response that had returned before the call
\* began, that the capacity had not evicted when the call read the log, that
\* are younger than the window, and that have a classification
CompletedInWindow(label) ==
    { i \in response.completed_before :
        /\ i > response.ingests - LogCapacity
        /\ AgeOf(ingested[i]) < response.hours * 60
        /\ ingested[i].classification = <<label>> }

\* C15: a statistics call counts every record whose ingest returned before the
\* call began, when the record is in the window and within the capacity, also
\* while other ingests run at the same time as the call.
C15_StatisticsSeeCompletedIngests ==
    (response.op = "get_statistics" /\ "completed_before" \in DOMAIN response) =>
        LET summary == response.stats.detection_summary
        IN  /\ summary.scam_count >= Cardinality(CompletedInWindow("SCAM"))
            /\ summary.safe_count >= Cardinality(CompletedInWindow("SAFE"))

----------------------------------------------------------------------------
(* The classifier's prediction *)

\* a call of EnhancedMLDetector.predict_advanced; one call a run.  The text
\* enters through the text model's probability and the counts of its words.
PredictAdvanced(tfidf_prob, urgency, template_count, urls) ==
    /\ response = NoResponse
    /\ \E features \in {extract_all_features(linguistic_features(urgency, 0, 0), urls,
                                            BehaviourFeatures, template_count)} :
          response' = [ op |-> "predict_advanced", urls |-> urls, features |-> features,
                        result |-> predict_advanced(tfidf_prob, features) ]
    /\ UNCHANGED <<analytics, ingested, clock, startup, scored_before, analysed, threads>>

InitMl == InitAnalytics /\ InitProcess(DefaultSettings, RuleIds)

NextMl ==
    \E tfidf_prob \in TfidfInputs, urgency \in FeatureCounts, template_count \in FeatureCounts,
       urls \in UrlLists :
        PredictAdvanced(tfidf_prob, urgency, template_count, urls)

SpecMl == InitMl /\ [][NextMl]_vars

----------------------------------------------------------------------------
(* Claims about the classifier *)

\* C22: in the feature-derived score the URL risk is the sum of 0.2 when some
\* URL has a suspicious TLD, 0.25 when some URL is a shortened link and 0.2
\* when some URL holds an IP literal; it is 0 when none of the three flags is
\* set, as for an ordinary URL or an empty URL list.
C22_UrlRiskFromFlags ==
    response.op = "predict_advanced" =>
        LET flags == analyze_url_features(response.urls)
        IN  response.result.feature_breakdown.url_risk =
                  (IF flags.has_suspicious_tld THEN 20 ELSE 0)
                + (IF flags.has_shortened_url THEN 25 ELSE 0)
                + (IF flags.has_ip_address THEN 20 ELSE 0)

----------------------------------------------------------------------------
(* The language processor on its own *)

\* a call of LanguageProcessor.process; one call a run
Process(message, language_hint) ==
    /\ response = NoResponse
    /\ response' = [ op |-> "process", message |-> message, hint |-> language_hint,
                     info |-> process(message, language_hint) ]
    /\ UNCHANGED <<analytics, ingested, clock, startup, scored_before, analysed, threads>>

InitLanguage == InitAnalytics /\ InitProcess(DefaultSettings, RuleIds)

NextLanguage ==
    \E message \in LanguageMessages, language_hint \in LanguageHints :
        Process(message, language_hint)

SpecLanguage == InitLanguage /\ [][NextLanguage]_vars

----------------------------------------------------------------------------
(* Claims about the language processor *)

\* the number of characters of the Urdu block in a message
ScriptChars(message) == Cardinality({ i \in DOMAIN message : message[i] \in UrduChars })

\* whether the word stands in the message between blanks or the message's ends
OccursAsWord(message, word) ==
    \E i \in DOMAIN message :
        /\ literal_at(lower(message), word, i, FALSE)
        /\ i = 1 \/ message[i - 1] = " "
        /\ i + Len(word) > Len(message) \/ message[i + Len(word)] = " "

\* the dictionary words that occur in the message as words
MarkerWords(message) ==
    { w \in DOMAIN ROMAN_URDU_WORDS : OccursAsWord(message, ROMAN_URDU_WORDS[w]) }

\* C23: for every message and language hint the confidence the language
\* processor returns lies in [0,1]: 1.0 for an explicit hint, script characters
\* over total characters for Urdu, marker matches over word count for Roman
\* Urdu, 0.95 for the default.
C23_LanguageConfidenceInUnitInterval ==
    response.op = "process" =>
        LET confidence == response.info.confidence
        IN  /\ confidence.den > 0
            /\ 0 <= confidence.num
            /\ confidence.num <= confidence.den
            /\ response.hint # "auto" => confidence.num = confidence.den
            /\ response.info.language = "english" =>
                  confidence.num * 100 = ENGLISH_CONFIDENCE * confidence.den

\* C24: under the auto hint a message with at most 5 characters of Urdu script
\* is classified roman_urdu exactly when at least 2 distinct dictionary words
\* occur in it as words; a message that holds them only inside other words is
\* classified english.
C24_RomanUrduByWholeWords ==
    (response.op = "process" /\ response.hint = "auto"
                             /\ ScriptChars(response.message) <= URDU_CHAR_THRESHOLD) =>
        /\ response.info.language = "roman_urdu"
              <=> Cardinality(MarkerWords(response.message)) >= ROMAN_URDU_THRESHOLD
        /\ response.info.language \in {"roman_urdu", "english"}

----------------------------------------------------------------------------
(* The records the pipeline ingests *)

\* the pipeline with ML off and analytics on, and statistics over the day
InitRecords ==
    InitAnalytics /\ InitProcess([DefaultSettings EXCEPT !.ENABLE_ML = FALSE], RuleIds)

NextRecords ==
    \/ \E message \in RecordMessages : AnalyzeMessage(message, "auto")
    \/ GetStatistics(RecentWindowHours)

SpecRecords == InitRecords /\ [][NextRecords]_vars

----------------------------------------------------------------------------
(* Claims about the ingested records *)

\* the i-th analysis and the i-th ingested record belong to the same call
Ingests == IF Len(analysed) = Len(ingested) THEN DOMAIN ingested ELSE {}

\* whether the message holds a link: http:// or https:// and what follows
HasUrl(message) == \E i \in DOMAIN message : url_match(message, i) > 0

\* C25: the digest stored in a record is independent of PII: two raw messages
\* that differ only in redacted PII, so that their redacted texts are equal,
\* give records with the same digest.
C25_DigestIndependentOfPii ==
    \A i, j \in Ingests :
        _anonymize_message(analysed[i].message) = _anonymize_message(analysed[j].message)
            => ingested[i].message_hash = ingested[j].message_hash

\* C26: the URL-presence flag of an ingested record is true exactly when the
\* analysed message holds a URL, whatever rules or keywords it triggered.
C26_UrlFlagMeansUrl ==
    \A i \in Ingests : ingested[i].has_urls <=> HasUrl(analysed[i].message)

\* C30: with ML disabled and the default weights (0.65 ML, 0.35 rule) and
\* thresholds (0.45, 0.75) the final score never exceeds 0.35 for any message,
\* so every analysed message is classified SAFE and no sequence of analyses
\* ingests a SUSPICIOUS or SCAM record.
C30_MlOffMeansAlwaysSafe ==
    (/\ ~settings.ENABLE_ML
     /\ settings.ML_WEIGHT = 65 /\ settings.RULE_WEIGHT = 35
     /\ settings.SUSPICIOUS_THRESHOLD = 45 /\ settings.SCAM_THRESHOLD = 75) =>
        /\ \A i \in DOMAIN analysed :
              /\ analysed[i].result.risk_score <= 3500
              /\ analysed[i].result.classification = "SAFE"
        /\ \A i \in DOMAIN ingested : ingested[i].classification = Some("SAFE")

\* a message that triggers five rules was analysed with ML off: its rule score
\* is 1, its final score exactly 0.35, and its record is SAFE
C30_Witness ==
    /\ ~settings.ENABLE_ML
    /\ Len(analysed) >= 1
    /\ Len(analysed[1].result.triggered_rules) = 5
    /\ analysed[1].result.rule_score = 100
    /\ analysed[1].result.risk_score = 3500
    /\ Len(ingested) >= 1
    /\ ingested[1].classification = Some("SAFE")

\* C28: every record the pipeline ingests carries the language detected for its
\* message and the message's ML score, so that on a non-empty window the
\* language_distribution counts sum to total_messages_analyzed.
C28_RecordsCarryLanguageAndMl ==
    /\ \A i \in Ingests :
          /\ ingested[i].language = Some(analysed[i].result.language_info.detected)
          /\ ingested[i].ml_probability = Some(analysed[i].result.ml_score)
    /\ (response.op = "get_statistics" /\ response.stats.total_messages_analyzed > 0) =>
          SumSeq([k \in DOMAIN response.stats.language_distribution |->
                     response.stats.language_distribution[k].count])
              = response.stats.total_messages_analyzed

----------------------------------------------------------------------------
(* The top-patterns list *)

InitPatterns == InitAnalytics /\ InitProcess(DefaultSettings, RuleIds)

NextPatterns ==
    \/ \E r \in PatternResults, m \in SampleMessages : LogDetection(r, m)
    \/ \E minutes \in ClockSteps : Tick(minutes)
    \/ \E hours \in PatternHours : GetStatistics(hours)

SpecPatterns == InitPatterns /\ [][NextPatterns]_vars

----------------------------------------------------------------------------
(* Claims about the top-patterns list *)

\* the in-window records whose triggered rules include the rule
Triggering(hours, rule) ==
    { i \in InWindow(hours) :
        \E j \in DOMAIN detections[i].triggered_rules : detections[i].triggered_rules[j] = rule }

\* those of them classified SCAM or SUSPICIOUS
TriggeringScams(hours, rule) ==
    { i \in Triggering(hours, rule) :
        detections[i].classification \in {<<"SCAM">>, <<"SUSPICIOUS">>} }

\* the list is at most 10 long and its counts do not increase
TopListOrdered(top) ==
    /\ Len(top) <= 10
    /\ \A k \in DOMAIN top : k > 1 => top[k - 1].count >= top[k].count

----------------------------------------------------------------------------
(* The threat-intelligence report *)

\* a call of ScamAnalytics.get_threat_intelligence
GetThreatIntelligence ==
    /\ response' = [op |-> "get_threat_intelligence"] @@ get_threat_intelligence
    /\ UNCHANGED <<analytics, ingested, clock, startup, scored_before, analysed, threads>>

InitIntelligence == InitAnalytics /\ InitProcess(DefaultSettings, RuleIds)

NextIntelligence ==
    \/ \E r \in SampleResults, m \in SampleMessages : LogDetection(r, m)
    \/ \E minutes \in ClockSteps : Tick(minutes)
    \/ GetThreatIntelligence

SpecIntelligence == InitIntelligence /\ [][NextIntelligence]_vars

\* C29: get_threat_intelligence returns a report in every reachable log state,
\* also for an empty log and for a log with no record in the last 24 hours,
\* where get_statistics returns the no-data structure; it never ends in an
\* error.
C29_ThreatIntelligenceAlwaysReturns ==
    response.op = "get_threat_intelligence" =>
        /\ response.status = "returned"
        /\ "report" \in DOMAIN response

====
